---- MODULE Spec2Model ----
(***************************************************************************)
(* Transcript ingestion pipeline of prompt-playground: the JSONL parser    *)
(* (lib/parser.ts), the sync engine (lib/sync.ts) over the SQLite store    *)
(* (lib/db.ts), the file watcher (lib/watcher.ts) and the lazy start-up     *)
(* (lib/init.ts).                                                          *)
(*                                                                         *)
(* Strings of the program are sequences of tokens: a token is a maximal    *)
(* chunk the code tells apart (a marker prefix, a run of white space, a    *)
(* word).  JavaScript's undefined / falsy string is "", null is NULL.      *)
(* Timestamps are positive integers, TsUndefined is a missing timestamp    *)
(* field and TsNull the null the parser initialises assistantAt with.      *)
(***************************************************************************)
EXTENDS Integers, Sequences, FiniteSets, TLC

VARIABLES
    files,      \* path -> the lines of the transcript file at that path
    db,         \* the committed store: sessions and conversation_turns
    txdb,       \* the store as seen inside the open transaction
    pc,         \* position of the syncFile call in progress
    call,       \* locals of the syncFile call in progress
    ret,        \* outcome of the last completed syncFile call
    edits,      \* number of file modifications made so far
    transcript, \* input of the parser run (SpecParse)
    parsed,     \* result of the parser run (SpecParse)
    size,       \* path -> lines of the watched transcript, 0 when there is no file
    bad,        \* the paths whose transcript syncFile throws on as it stands
    cursor,     \* path -> lines of the transcript the store reflects
    dirs,       \* the project directories that exist
    watching,   \* watcher.ts: watching
    watchers,   \* directory -> number of open fs.watch subscriptions on it
    notifs,     \* path -> change notifications not yet delivered to a callback
    topNotifs,  \* project directory -> top-level notifications not yet delivered
    debounceTimers, \* watcher.ts: debounceTimers, path -> timer id, 0 for no entry
    timers,     \* the timers armed with setTimeout and neither run nor cleared
    running,    \* the paths of the debounced syncFile attempts in progress
    listeners,  \* watcher.ts: listeners
    emitted,    \* number of events passed to emit so far
    lastEvent,  \* listener -> number of the last event it was called with
    since,      \* path -> ticks since handleFileChange was last called for it
    burst,      \* path -> what became of its current burst of notifications
    boot,       \* init.ts: initialized, and the position of ensureInitialized
    opts,       \* analyzer.ts: the AnalyzerOptions of the analysis call
    report      \* what the last analysis call returned

syncVars == <<files, db, txdb, pc, call, ret, edits>>
parseVars == <<transcript, parsed>>
diskVars == <<size, bad, cursor, dirs>>
watchVars ==
    <<diskVars, watching, watchers, notifs, topNotifs, debounceTimers, timers, running,
      listeners, emitted, lastEvent, since, burst, boot>>

mineVars == <<opts, report>>

vars == <<syncVars, parseVars, watchVars, mineVars>>

\* ---------------------------------------------------------------- bounds
MaxLines == 2
MaxEdits == 3
MaxEvents == 3
MaxAppends == 2
MaxWatchers == 2
MaxFrequency == 3

\* ---------------------------------------------------------------- values
NULL == "NULL"
TsUndefined == 0
TsNull == 0 - 1

Truthy(s) == s # "" /\ s # NULL
TsTruthy(t) == t > 0

\* ---------------------------------------------------------------- strings
WsTokens == {"WS", "NL"}

\* String.prototype.trim
RECURSIVE TrimStart(_)
TrimStart(s) ==
    IF s = <<>> THEN <<>>
    ELSE IF Head(s) \in WsTokens THEN TrimStart(Tail(s)) ELSE s

RECURSIVE TrimEnd(_)
TrimEnd(s) ==
    IF s = <<>> THEN <<>>
    ELSE IF s[Len(s)] \in WsTokens THEN TrimEnd(SubSeq(s, 1, Len(s) - 1)) ELSE s

Trim(s) == TrimEnd(TrimStart(s))

\* the tokens whose text begins with the given literal prefix
SystemTokens == {"<system-reminder>"}
LocalCommandTokens == {"<local-command-stdout>"}
CommandNameTokens == {"<command-name>"}
InterruptedTokens == {"[Request interrupted"}

StartsWith(s, toks) == s # <<>> /\ Head(s) \in toks

\* Array.prototype.join("\n")
RECURSIVE JoinNL(_)
JoinNL(parts) ==
    IF parts = <<>> THEN <<>>
    ELSE IF Len(parts) = 1 THEN Head(parts)
    ELSE Head(parts) \o <<"NL">> \o JoinNL(Tail(parts))

\* ---------------------------------------------------------------- entries
\* A content block of a message.
Block(type, text, name) == [type |-> type, text |-> text, name |-> name]

TextBlock(text) == Block("text", text, "")
ToolUse(name) == Block("tool_use", <<>>, name)
StringBlock(text) == Block("string", text, "")

\* One line of a transcript file: its byte length (newline included) and
\* what JSON.parse makes of it.  json is "object" for an event, "malformed"
\* when JSON.parse throws, "blank" for a line that trims to nothing and
\* "null" for the JSON literal null.
Line(bytes, json, type, sessionId, timestamp, version, gitBranch, cwd, hasMessage, form, text, blocks, model) ==
    [bytes |-> bytes, json |-> json, type |-> type, sessionId |-> sessionId,
     timestamp |-> timestamp, version |-> version, gitBranch |-> gitBranch,
     cwd |-> cwd, hasMessage |-> hasMessage, form |-> form, text |-> text,
     blocks |-> blocks, model |-> model]

UserString(bytes, sid, ts, text) ==
    Line(bytes, "object", "user", sid, ts, "", "", "", TRUE, "string", text, <<>>, "")

UserBlocks(bytes, sid, ts, blocks) ==
    Line(bytes, "object", "user", sid, ts, "", "", "", TRUE, "blocks", <<>>, blocks, "")

Assistant(bytes, sid, ts, blocks, model) ==
    Line(bytes, "object", "assistant", sid, ts, "", "", "", TRUE, "blocks", <<>>, blocks, model)

Other(bytes, sid, ts) ==
    Line(bytes, "object", "system", sid, ts, "", "", "", FALSE, "none", <<>>, <<>>, "")

Malformed(bytes) ==
    Line(bytes, "malformed", "", "", TsUndefined, "", "", "", FALSE, "none", <<>>, <<>>, "")

\* a line JSON.parse accepts and turns into null
JsonNull(bytes) ==
    Line(bytes, "null", "", "", TsUndefined, "", "", "", FALSE, "none", <<>>, <<>>, "")

WithMeta(line, version, gitBranch, cwd) ==
    [line EXCEPT !.version = version, !.gitBranch = gitBranch, !.cwd = cwd]

\* ---------------------------------------------------------------- parser
\* extractUserText: the prompt text of a user entry, <<>> for null.
RECURSIVE ExtractBlocks(_)
ExtractBlocks(blocks) ==
    IF blocks = <<>> THEN <<>>
    ELSE LET block == Head(blocks)
             rest == ExtractBlocks(Tail(blocks))
             text == Trim(block.text)
         IN  IF block.type = "string" THEN <<block.text>> \o rest
             ELSE IF block.type = "text" /\ block.text # <<>>
             THEN IF \/ StartsWith(text, SystemTokens)
                     \/ StartsWith(text, LocalCommandTokens)
                     \/ StartsWith(text, CommandNameTokens)
                     \/ StartsWith(text, InterruptedTokens)
                     \/ text = <<>>
                  THEN rest
                  ELSE <<text>> \o rest
             ELSE rest

\* only the local-command envelope is skipped
SkippedStringLocalOnly(content) == StartsWith(content, LocalCommandTokens)

\* a string content that is a system instruction
SkippedString(content) ==
    StartsWith(content, SystemTokens) \/ StartsWith(content, LocalCommandTokens)

extractUserText(entry) ==
    IF ~entry.hasMessage THEN <<>>
    ELSE IF entry.form = "string"
    THEN IF SkippedString(entry.text) THEN <<>> ELSE Trim(entry.text)
    ELSE IF entry.form = "blocks"
    THEN Trim(JoinNL(ExtractBlocks(entry.blocks)))
    ELSE <<>>

NewTurn(n, userText, ts) ==
    [turnNumber |-> n, userPrompt |-> userText, userPromptAt |-> ts,
     assistantTexts |-> <<>>, assistantTools |-> <<>>,
     assistantAt |-> TsNull, model |-> NULL]

\* a tool already in the list is not added again
PushToolOnce(tools, name) ==
    IF \E i \in 1..Len(tools) : tools[i] = name THEN tools ELSE Append(tools, name)

\* currentTurn.assistantTools.push({name, id})
PushTool(tools, name) == Append(tools, name)

\* the content blocks of one assistant message applied to the open turn
RECURSIVE ApplyBlocks(_, _)
ApplyBlocks(turn, blocks) ==
    IF blocks = <<>> THEN turn
    ELSE LET block == Head(blocks)
             next ==
                 IF block.type = "text" /\ Trim(block.text) # <<>>
                 THEN [turn EXCEPT !.assistantTexts = Append(@, block.text)]
                 ELSE IF block.type = "tool_use" /\ Truthy(block.name)
                 THEN [turn EXCEPT !.assistantTools = PushTool(@, block.name)]
                 ELSE turn
         IN  ApplyBlocks(next, Tail(blocks))

\* the model is recorded only while the turn has none
ApplyAssistantFirstModel(turn, entry) ==
    IF ~entry.hasMessage THEN turn
    ELSE LET t1 == IF Truthy(entry.model) /\ turn.model = NULL
                   THEN [turn EXCEPT !.model = entry.model] ELSE turn
             t2 == IF ~TsTruthy(t1.assistantAt)
                   THEN [t1 EXCEPT !.assistantAt = entry.timestamp] ELSE t1
         IN  IF entry.form = "blocks" THEN ApplyBlocks(t2, entry.blocks) ELSE t2

ApplyAssistant(turn, entry) ==
    IF ~entry.hasMessage THEN turn
    ELSE LET t1 == IF Truthy(entry.model) THEN [turn EXCEPT !.model = entry.model] ELSE turn
             t2 == IF ~TsTruthy(t1.assistantAt)
                   THEN [t1 EXCEPT !.assistantAt = entry.timestamp] ELSE t1
         IN  IF entry.form = "blocks" THEN ApplyBlocks(t2, entry.blocks) ELSE t2

\* turn numbers that leave gaps
NextTurnNumberOdd(turns) == 2 * Len(turns) + 1

\* the turn number taken from the list length, without the + 1
NextTurnNumberZeroBased(turns) == Len(turns)

\* the turn number given to a turn opened when `turns` are already closed
NextTurnNumber(turns) == Len(turns) + 1

\* a turn that got no assistant event is not kept
CloseTurnAnswered(acc) ==
    IF acc.open /\ acc.cur.assistantAt # TsNull
    THEN Append(acc.turns, acc.cur) ELSE acc.turns

\* if (currentTurn) turns.push(currentTurn)
CloseTurn(acc) == IF acc.open THEN Append(acc.turns, acc.cur) ELSE acc.turns

\* the loop over the entries: acc = [turns, open, cur]
RECURSIVE BuildTurns(_, _)
BuildTurns(entries, acc) ==
    IF entries = <<>> THEN acc
    ELSE LET entry == Head(entries)
             userText == extractUserText(entry)
             closed == CloseTurn(acc)
             next ==
                 IF entry.type = "user"
                 THEN IF userText # <<>>
                      THEN [turns |-> closed, open |-> TRUE,
                            cur |-> NewTurn(NextTurnNumber(closed), userText, entry.timestamp)]
                      ELSE acc
                 ELSE IF entry.type = "assistant" /\ acc.open
                 THEN [acc EXCEPT !.cur = ApplyAssistant(acc.cur, entry)]
                 ELSE acc
         IN  BuildTurns(Tail(entries), next)

NoTurn == NewTurn(0, <<>>, TsUndefined)

Turns(entries) ==
    LET acc == BuildTurns(entries, [turns |-> <<>>, open |-> FALSE, cur |-> NoTurn])
    IN  CloseTurn(acc)

RECURSIVE SumBytes(_)
SumBytes(lines) == IF lines = <<>> THEN 0 ELSE Head(lines).bytes + SumBytes(Tail(lines))

RECURSIVE SelectLines(_, _)
SelectLines(lines, kinds) ==
    IF lines = <<>> THEN <<>>
    ELSE IF Head(lines).json \in kinds
         THEN <<Head(lines)>> \o SelectLines(Tail(lines), kinds)
         ELSE SelectLines(Tail(lines), kinds)

\* entries.find(pred): index of the first entry with a truthy field, 0 if none
RECURSIVE FindFrom(_, _, _)
FindFrom(entries, field, i) ==
    IF i > Len(entries) THEN 0
    ELSE IF Truthy(entries[i][field]) THEN i
    ELSE FindFrom(entries, field, i + 1)

\* a search that overlooks the first entry
FindSkipFirst(entries, field) == FindFrom(entries, field, 2)

Find(entries, field) == FindFrom(entries, field, 1)

NoSession ==
    [id |-> "", projectPath |-> "", projectHash |-> "", jsonlPath |-> "",
     startedAt |-> TsUndefined, lastActivityAt |-> TsUndefined,
     version |-> NULL, gitBranch |-> NULL, turns |-> <<>>]

ParseResult(threw, hasSession, session, bytesRead) ==
    [threw |-> threw, hasSession |-> hasSession, session |-> session,
     bytesRead |-> bytesRead]

\* path.basename(path.dirname(jsonlPath))
ProjectHashOf(jsonlPath) == jsonlPath[1]

\* what a path holds when readFileSync throws on it: no file, or no permission
Unreadable == <<[json |-> "unreadable"]>>

\* the read failure leaves parseTranscript as an exception
ReadFailureThrows == ParseResult(TRUE, FALSE, NoSession, 0)

\* the catch around readFileSync
ReadFailure == ParseResult(FALSE, FALSE, NoSession, 0)

\* parseTranscript(jsonlPath), the path unreadable or holding `lines`
parseTranscript(jsonlPath, lines) ==
    LET totalBytes == SumBytes(lines)
        entries == SelectLines(lines, {"object", "null"})
        hasNull == \E i \in 1..Len(entries) : entries[i].json = "null"
        first == Find(entries, "sessionId")
        cwdAt == Find(entries, "cwd")
        versionAt == Find(entries, "version")
        branchAt == Find(entries, "gitBranch")
    IN  IF lines = Unreadable THEN ReadFailure
        ELSE IF entries = <<>> THEN ParseResult(FALSE, FALSE, NoSession, totalBytes)
        ELSE IF hasNull THEN ParseResult(TRUE, FALSE, NoSession, 0)
        ELSE IF first = 0 THEN ParseResult(FALSE, FALSE, NoSession, totalBytes)
        ELSE ParseResult(FALSE, TRUE,
                 [id |-> entries[first].sessionId,
                  projectPath |-> IF cwdAt = 0 THEN "unknown" ELSE entries[cwdAt].cwd,
                  projectHash |-> ProjectHashOf(jsonlPath),
                  jsonlPath |-> jsonlPath,
                  startedAt |-> entries[first].timestamp,
                  lastActivityAt |-> entries[Len(entries)].timestamp,
                  version |-> IF versionAt = 0 THEN NULL ELSE entries[versionAt].version,
                  gitBranch |-> IF branchAt = 0 THEN NULL ELSE entries[branchAt].gitBranch,
                  turns |-> Turns(entries)],
                 totalBytes)

\* ---------------------------------------------------------------- inputs
\* The lines transcripts are made of.
uFix == WithMeta(UserString(2, "s1", 1, <<"fix">>), "v1", "main", "/proj")
uAdd == UserString(2, "s1", 2, <<"add">>)
uLong == WithMeta(UserString(6, "s1", 3, <<"fix", "WS", "add">>), "v2", "dev", "/other")
uSys == UserString(2, "s1", 1, <<"<system-reminder>", "fix">>)
uOther == UserString(2, "s2", 1, <<"fix">>)
uNoTs == UserString(2, "", TsUndefined, <<"add">>)
uBlank == UserString(1, "s1", 1, <<"WS">>)
uBlocks ==
    UserBlocks(3, "s1", 2, <<TextBlock(<<"<command-name>", "fix">>),
                             TextBlock(<<"WS", "add", "WS">>)>>)
uInterrupted ==
    UserBlocks(2, "s1", 1, <<TextBlock(<<"[Request interrupted">>),
                             Block("tool_result", <<>>, "")>>)
aRead ==
    Assistant(3, "s1", 2, <<TextBlock(<<"ok">>), ToolUse("Read"), ToolUse("Edit")>>, "m1")
aBash ==
    Assistant(3, "s1", 3, <<TextBlock(<<"WS">>), ToolUse(""), ToolUse("Bash"),
                            TextBlock(<<"done">>), ToolUse("Read")>>, "m2")
aBare == Assistant(1, "s1", 3, <<>>, "")
aNoMessage ==
    Line(1, "object", "assistant", "s1", 2, "", "", "", FALSE, "none", <<>>, <<>>, "")
sysEvent == Other(1, "s1", 1)
badLine == Malformed(1)
\* prompts the harness writes for a finished background task
uTask == UserString(2, "s1", 2, <<"<task-notification>", "done">>)
uTaskBlocks == UserBlocks(2, "s1", 2, <<TextBlock(<<"<task-notification>", "done">>)>>)
\* a slash-command echo written as plain string content
uCommand == UserString(2, "s1", 1, <<"<command-name>", "fix">>)
\* a line holding the JSON literal null
nullLine == JsonNull(1)

SyncLines == {uFix, uAdd, uLong, uSys, uOther, uNoTs, aRead, badLine}

ParseLines ==
    {uFix, uAdd, uSys, uNoTs, uBlank, uBlocks, uInterrupted, aRead, aBash, aBare,
     aNoMessage, sysEvent, badLine, uTask, uTaskBlocks, uCommand, nullLine}

RECURSIVE SeqsUpTo(_, _)
SeqsUpTo(S, n) ==
    IF n = 0 THEN {<<>>}
    ELSE LET shorter == SeqsUpTo(S, n - 1)
         IN  shorter \cup {Append(q, x) : q \in {r \in shorter : Len(r) = n - 1}, x \in S}

Paths == {<<"projA", "a.jsonl">>, <<"projB", "b.jsonl">>}

\* ---------------------------------------------------------------- parser run
NotParsed == [done |-> FALSE, result |-> ParseResult(FALSE, FALSE, NoSession, 0)]

ParsePath == <<"projA", "a.jsonl">>

Parse ==
    /\ ~parsed.done
    /\ parsed' = [done |-> TRUE, result |-> parseTranscript(ParsePath, transcript)]
    /\ UNCHANGED <<transcript, syncVars, watchVars, mineVars>>

\* ---------------------------------------------------------------- store
SessionIds == {"s1", "s2"}

EmptyDb == [sessions |-> {}, turns |-> {}]

HasSessionRow(d, id) == \E r \in d.sessions : r.id = id
SessionRow(d, id) == CHOOSE r \in d.sessions : r.id = id
TurnRows(d, id) == {t \in d.turns : t.session_id = id}
HasTurnRow(d, id, n) == \E t \in d.turns : t.session_id = id /\ t.turn_number = n
TurnRow(d, id, n) == CHOOSE t \in d.turns : t.session_id = id /\ t.turn_number = n

\* COALESCE(a, b)
\* the stored value is kept once it is set
CoalesceStored(a, b) == IF b # NULL THEN b ELSE a

\* the stored value is overwritten, also by NULL
CoalesceNone(a, b) == a

Coalesce(a, b) == IF a # NULL THEN a ELSE b

\* getSessionSyncState.get(id): last_synced_bytes of the row
LastSyncedBytes(d, id) == SessionRow(d, id).last_synced_bytes

\* better-sqlite3 refuses to bind undefined
SessionBindFails(s) == s.startedAt = TsUndefined \/ s.lastActivityAt = TsUndefined
TurnBindFails(turn) == turn.userPromptAt = TsUndefined \/ turn.assistantAt = TsUndefined

\* the turn_count parameter bound by syncFile
TurnCountOf(s) == Len(s.turns)

upsertSession(d, s, bytes) ==
    IF HasSessionRow(d, s.id)
    THEN LET old == SessionRow(d, s.id)
             new == [old EXCEPT !.last_activity_at = s.lastActivityAt,
                                !.version = Coalesce(s.version, old.version),
                                !.git_branch = Coalesce(s.gitBranch, old.git_branch),
                                !.turn_count = TurnCountOf(s),
                                !.last_synced_bytes = bytes]
         IN  [d EXCEPT !.sessions = (@ \ {old}) \cup {new}]
    ELSE [d EXCEPT !.sessions = @ \cup
             {[id |-> s.id, project_path |-> s.projectPath,
               project_hash |-> s.projectHash, jsonl_path |-> s.jsonlPath,
               started_at |-> s.startedAt, last_activity_at |-> s.lastActivityAt,
               version |-> s.version, git_branch |-> s.gitBranch,
               turn_count |-> TurnCountOf(s), last_synced_bytes |-> bytes]}]

\* turn.assistantTexts.join("\n") || null: <<>> stands for NULL, the empty
\* string is never stored
AssistantTextOf(turn) == JoinNL(turn.assistantTexts)

\* JSON.stringify(names) or null: <<>> stands for NULL, "[]" is never stored
ToolsJsonOf(turn) == turn.assistantTools

\* INSERT OR REPLACE: the row of the turn is written anew from the parse
upsertTurnReplace(d, id, turn) ==
    [d EXCEPT !.turns = {t \in @ : ~(t.session_id = id /\ t.turn_number = turn.turnNumber)}
         \cup {[session_id |-> id, turn_number |-> turn.turnNumber,
                user_prompt |-> turn.userPrompt, user_prompt_at |-> turn.userPromptAt,
                assistant_text |-> AssistantTextOf(turn),
                assistant_tools |-> ToolsJsonOf(turn),
                assistant_at |-> turn.assistantAt, model |-> turn.model]}]

upsertTurn(d, id, turn) ==
    IF HasTurnRow(d, id, turn.turnNumber)
    THEN LET old == TurnRow(d, id, turn.turnNumber)
             new == [old EXCEPT !.assistant_text = AssistantTextOf(turn),
                                !.assistant_tools = ToolsJsonOf(turn),
                                !.assistant_at = turn.assistantAt,
                                !.model = Coalesce(turn.model, old.model)]
         IN  [d EXCEPT !.turns = (@ \ {old}) \cup {new}]
    ELSE [d EXCEPT !.turns = @ \cup
             {[session_id |-> id, turn_number |-> turn.turnNumber,
               user_prompt |-> turn.userPrompt, user_prompt_at |-> turn.userPromptAt,
               assistant_text |-> AssistantTextOf(turn),
               assistant_tools |-> ToolsJsonOf(turn),
               assistant_at |-> turn.assistantAt, model |-> turn.model]}]

\* ---------------------------------------------------------------- syncFile
NoPath == <<"", "">>

IdleCall ==
    [path |-> NoPath, session |-> NoSession, bytes |-> 0, next |-> 0, events |-> <<>>]

\* the outcome of the last completed call, kept for as long as the file it
\* read is not modified: what it returned or that it threw, whether its
\* transaction committed, and (after) what the call before it did when that
\* call was on the same path and the file was not modified in between
Outcome(path, result, events, committed, after) ==
    [path |-> path, result |-> result, events |-> events, committed |-> committed,
     after |-> after]

NoOutcome == Outcome(NoPath, "none", <<>>, FALSE, "other")

After(path) ==
    IF ret.path = path
    THEN IF ret.committed THEN "committed" ELSE ret.result
    ELSE "other"

\* the file at `path` is modified: an outcome read from it is forgotten
Stale(path) == IF ret.path = path THEN NoOutcome ELSE ret

\* the event names the session after the file, as discoverSessions does
SessionUpdatedByFileName(s) ==
    [type |-> "session_updated", sessionId |-> s.jsonlPath[2], turnCount |-> Len(s.turns)]

SessionUpdated(s) ==
    [type |-> "session_updated", sessionId |-> s.id, turnCount |-> Len(s.turns)]

\* the skip test with > for >=
NoNewDataStrict(d, id, bytesRead) ==
    HasSessionRow(d, id) /\ LastSyncedBytes(d, id) > bytesRead

\* the skip test with = for >=
NoNewDataEqual(d, id, bytesRead) ==
    HasSessionRow(d, id) /\ LastSyncedBytes(d, id) = bytesRead

\* existing && existing.last_synced_bytes >= bytesRead
NoNewData(d, id, bytesRead) ==
    HasSessionRow(d, id) /\ LastSyncedBytes(d, id) >= bytesRead

\* syncFile up to the opening of the transaction
SyncBegin(path) ==
    LET content == files[path]
        p == parseTranscript(path, content)
    IN  /\ pc = "idle"
        /\ IF p.threw
           THEN /\ ret' = Outcome(path, "threw", <<>>, FALSE, After(path))
                /\ UNCHANGED <<pc, call, txdb>>
           ELSE IF ~p.hasSession \/ Len(p.session.turns) = 0
           THEN /\ ret' = Outcome(path, "returned", <<>>, FALSE, After(path))
                /\ UNCHANGED <<pc, call, txdb>>
           ELSE IF NoNewData(db, p.session.id, p.bytesRead)
           THEN /\ ret' = Outcome(path, "returned", <<>>, FALSE, After(path))
                /\ UNCHANGED <<pc, call, txdb>>
           ELSE /\ pc' = "session"
                /\ call' = [path |-> path, session |-> p.session, bytes |-> p.bytesRead,
                            next |-> 1, events |-> <<>>]
                /\ txdb' = db
                /\ UNCHANGED ret
        /\ UNCHANGED <<files, db, edits, parseVars, watchVars, mineVars>>

\* the statements run outside a transaction: what was written stays
RolledBackPartial(committed, working) == working

\* db.transaction: the committed store after the function it wraps has thrown
RolledBack(committed, working) == committed

\* a statement of the transaction throws: the transaction rolls back and the
\* exception leaves syncFile
Rollback ==
    /\ pc' = "idle"
    /\ call' = IdleCall
    /\ txdb' = EmptyDb
    /\ db' = RolledBack(db, txdb)
    /\ ret' = Outcome(call.path, "threw", <<>>, FALSE, After(call.path))

TxUpsertSession ==
    /\ pc = "session"
    /\ IF SessionBindFails(call.session)
       THEN Rollback
       ELSE /\ txdb' = upsertSession(txdb, call.session, call.bytes)
            /\ pc' = "turns"
            /\ UNCHANGED <<call, ret, db>>
    /\ UNCHANGED <<files, edits, parseVars, watchVars, mineVars>>

TxUpsertTurn ==
    /\ pc = "turns"
    /\ call.next <= Len(call.session.turns)
    /\ LET turn == call.session.turns[call.next]
       IN  IF TurnBindFails(turn)
           THEN Rollback
           ELSE /\ txdb' = upsertTurn(txdb, call.session.id, turn)
                /\ call' = [call EXCEPT !.next = @ + 1]
                /\ UNCHANGED <<pc, ret, db>>
    /\ UNCHANGED <<files, edits, parseVars, watchVars, mineVars>>

TxCommit ==
    /\ pc = "turns"
    /\ call.next > Len(call.session.turns)
    /\ db' = txdb
    /\ txdb' = EmptyDb
    /\ pc' = "committed"
    /\ UNCHANGED <<call, ret, files, edits, parseVars, watchVars, mineVars>>

\* events.push(...); return events
SyncReturn ==
    /\ pc = "committed"
    /\ ret' = Outcome(call.path, "returned",
                      Append(call.events, SessionUpdated(call.session)), TRUE,
                      After(call.path))
    /\ pc' = "idle"
    /\ call' = IdleCall
    /\ UNCHANGED <<db, txdb, files, edits, parseVars, watchVars, mineVars>>

\* ---------------------------------------------------------------- the files
\* Another process appends a line to a transcript (creating the file when
\* there is none), cuts its last line off, or removes the file.
\* syncFile reads the file once and runs to its end without yielding, so a
\* modification takes effect between calls.
AppendLine(path, line) ==
    /\ pc = "idle"
    /\ edits < MaxEdits
    /\ Len(files[path]) < MaxLines
    /\ files' = [files EXCEPT ![path] = IF @ = Unreadable THEN <<line>> ELSE Append(@, line)]
    /\ edits' = edits + 1
    /\ ret' = Stale(path)
    /\ UNCHANGED <<db, txdb, pc, call, parseVars, watchVars, mineVars>>

TruncateLine(path) ==
    /\ pc = "idle"
    /\ edits < MaxEdits
    /\ files[path] \notin {<<>>, Unreadable}
    /\ files' = [files EXCEPT ![path] = SubSeq(@, 1, Len(@) - 1)]
    /\ edits' = edits + 1
    /\ ret' = Stale(path)
    /\ UNCHANGED <<db, txdb, pc, call, parseVars, watchVars, mineVars>>

RemoveFile(path) ==
    /\ pc = "idle"
    /\ edits < MaxEdits
    /\ files[path] # Unreadable
    /\ files' = [files EXCEPT ![path] = Unreadable]
    /\ edits' = edits + 1
    /\ ret' = Stale(path)
    /\ UNCHANGED <<db, txdb, pc, call, parseVars, watchVars, mineVars>>

\* ---------------------------------------------------------------- watcher
\* CLAUDE_DIR and the project directories under it
TopDir == "projects"
WDirs == {"projA", "projB"}

DirOf(path) == path[1]

\* setTimeout(..., 500), counted in ticks of 250 ms
DebounceTicks == 2

ListenerIds == {"L1", "L2"}

\* the listener throws when it is called
Throws(l) == l = "L1"

\* syncFile(jsonlPath) as the watcher and syncAll see it: it throws on a
\* transcript an upsert rejects, commits and returns one event when the file
\* holds more than the store reflects, and returns no event otherwise
SyncOutcome(path) ==
    IF path \in bad THEN "threw"
    ELSE IF size[path] > cursor[path] THEN "committed"
    ELSE "returned"

CursorAfter(path) ==
    IF SyncOutcome(path) = "committed" THEN [cursor EXCEPT ![path] = size[path]]
    ELSE cursor

\* emit that lets a listener's exception escape: the listeners after it are
\* not called
RECURSIVE EmitUncaught(_, _, _)
EmitUncaught(ls, seen, n) ==
    IF ls = <<>> THEN seen
    ELSE IF Throws(Head(ls)) THEN [seen EXCEPT ![Head(ls)] = n]
    ELSE EmitUncaught(Tail(ls), [seen EXCEPT ![Head(ls)] = n], n)

\* emit(event): every listener of the list is called in turn, an exception
\* of one is caught before the next is called
RECURSIVE Emit(_, _, _)
Emit(ls, seen, n) ==
    IF ls = <<>> THEN seen
    ELSE Emit(Tail(ls), [seen EXCEPT ![Head(ls)] = n], n)

\* addEventListener(listener)
AddEventListener(l) ==
    /\ running = <<>>
    /\ boot.pc # "syncAll"
    /\ \A i \in 1..Len(listeners) : listeners[i] # l
    /\ listeners' = Append(listeners, l)
    /\ UNCHANGED <<diskVars, watching, watchers, notifs, topNotifs, debounceTimers,
                   timers, running, emitted, lastEvent, since, burst, boot>>
    /\ UNCHANGED <<syncVars, parseVars, mineVars>>

NoTimerDue == \A t \in timers : t.remaining > 0

\* a timer object setTimeout has not handed out among the live ones
FreshId ==
    CHOOSE i \in 1..(Cardinality(timers) + Cardinality(Paths) + 1) :
        /\ \A t \in timers : t.id # i
        /\ \A p \in Paths : debounceTimers[p] # i

\* the existing timer is left armed
ClearNothing(ts, id) == ts

\* clearTimeout(existing)
ClearTimeout(ts, id) == {t \in ts : t.id # id}

\* handleFileChange(jsonlPath)
HandleFileChange(path) ==
    /\ timers' = ClearTimeout(timers, debounceTimers[path])
                     \cup {[id |-> FreshId, path |-> path, remaining |-> DebounceTicks]}
    /\ debounceTimers' = [debounceTimers EXCEPT ![path] = FreshId]
    /\ since' = [since EXCEPT ![path] = 0]
    /\ burst' = [burst EXCEPT ![path] = "open"]

\* the callback of a project directory's subscription runs for a change of
\* `path`; the event loop runs the timers that are due before it polls for
\* file-system events
Deliver(path) ==
    /\ running = <<>>
    /\ boot.pc # "syncAll"
    /\ NoTimerDue
    /\ notifs[path] > 0
    /\ notifs' = [notifs EXCEPT ![path] = @ - 1]
    /\ IF size[path] > 0
       THEN HandleFileChange(path)
       ELSE UNCHANGED <<timers, debounceTimers, since, burst>>
    /\ UNCHANGED <<diskVars, watching, watchers, topNotifs, running, listeners, emitted,
                   lastEvent, boot>>
    /\ UNCHANGED <<syncVars, parseVars, mineVars>>

\* the map entry is left in place when the callback starts
EntryKept(entries, path) == entries

\* debounceTimers.delete(jsonlPath), the first statement of the timer callback
EntryDeleted(entries, path) == [entries EXCEPT ![path] = 0]

\* a due timer's callback starts: the attempt is in progress
FireBegin(t) ==
    /\ running = <<>>
    /\ boot.pc # "syncAll"
    /\ t.remaining = 0
    /\ timers' = timers \ {t}
    /\ debounceTimers' = EntryDeleted(debounceTimers, t.path)
    /\ running' = <<t.path>>
    /\ burst' = [burst EXCEPT ![t.path] = IF @ = "open" THEN "running" ELSE "twice"]
    /\ UNCHANGED <<diskVars, watching, watchers, notifs, topNotifs, listeners, emitted,
                   lastEvent, since, boot>>
    /\ UNCHANGED <<syncVars, parseVars, mineVars>>

\* the callback reads the file, syncs it and emits the events syncFile
\* returned; what syncFile throws is caught
FireEnd ==
    /\ running # <<>>
    /\ LET path == Head(running)
           outcome == SyncOutcome(path)
       IN  /\ cursor' = CursorAfter(path)
           /\ IF outcome = "committed"
              THEN /\ emitted' = emitted + 1
                   /\ lastEvent' = Emit(listeners, lastEvent, emitted + 1)
              ELSE UNCHANGED <<emitted, lastEvent>>
           /\ burst' = [burst EXCEPT ![path] = IF @ = "running" THEN outcome ELSE @]
    /\ running' = <<>>
    /\ UNCHANGED <<size, bad, dirs, watching, watchers, notifs, topNotifs, debounceTimers,
                   timers, listeners, since, boot>>
    /\ UNCHANGED <<syncVars, parseVars, mineVars>>

\* 250 ms pass; a timer that is due runs before more time passes
Tick ==
    /\ running = <<>>
    /\ boot.pc # "syncAll"
    /\ NoTimerDue
    /\ timers # {} \/ \E p \in Paths : since[p] < DebounceTicks
    /\ timers' = {[t EXCEPT !.remaining = @ - 1] : t \in timers}
    /\ since' = [p \in Paths |-> IF since[p] < DebounceTicks THEN since[p] + 1 ELSE since[p]]
    /\ UNCHANGED <<diskVars, watching, watchers, notifs, topNotifs, debounceTimers, running,
                   listeners, emitted, lastEvent, burst, boot>>
    /\ UNCHANGED <<syncVars, parseVars, mineVars>>

\* Another process appends to the transcript at `path`, creating the file
\* when there is none; every subscription open on its directory is notified.
WriteTranscript(path, broken) ==
    /\ DirOf(path) \in dirs
    /\ size[path] < MaxAppends
    /\ size' = [size EXCEPT ![path] = @ + 1]
    /\ bad' = IF broken THEN bad \cup {path} ELSE bad \ {path}
    /\ notifs' = [notifs EXCEPT ![path] = @ + watchers[DirOf(path)]]
    /\ UNCHANGED <<cursor, dirs, watching, watchers, topNotifs, debounceTimers, timers,
                   running, listeners, emitted, lastEvent, since, burst, boot>>
    /\ UNCHANGED <<syncVars, parseVars, mineVars>>

\* Another process creates a project directory; the top-level subscription,
\* when there is one, is notified.
CreateDir(dir) ==
    /\ dir \notin dirs
    /\ dirs' = dirs \cup {dir}
    /\ topNotifs' = [topNotifs EXCEPT ![dir] = IF watchers[TopDir] > 0 THEN 1 ELSE @]
    /\ UNCHANGED <<size, bad, cursor, watching, watchers, notifs, debounceTimers, timers,
                   running, listeners, emitted, lastEvent, since, burst, boot>>
    /\ UNCHANGED <<syncVars, parseVars, mineVars>>

\* The top-level subscription is notified about the entry of a project
\* directory that exists: it was renamed into place or its attributes changed.
TouchDir(dir) ==
    /\ dir \in dirs
    /\ watchers[TopDir] > 0
    /\ watchers[dir] < MaxWatchers
    /\ topNotifs[dir] = 0
    /\ topNotifs' = [topNotifs EXCEPT ![dir] = 1]
    /\ UNCHANGED <<diskVars, watching, watchers, notifs, debounceTimers, timers, running,
                   listeners, emitted, lastEvent, since, burst, boot>>
    /\ UNCHANGED <<syncVars, parseVars, mineVars>>

\* watchProjectDir(projectDirPath): one more subscription, whatever is open
\* on the directory already
WatchProjectDir(ws, dir) == [ws EXCEPT ![dir] = @ + 1]

\* the callback of the top-level subscription
DeliverTop(dir) ==
    /\ running = <<>>
    /\ boot.pc # "syncAll"
    /\ NoTimerDue
    /\ topNotifs[dir] > 0
    /\ topNotifs' = [topNotifs EXCEPT ![dir] = 0]
    /\ watchers' = IF dir \in dirs THEN WatchProjectDir(watchers, dir) ELSE watchers
    /\ UNCHANGED <<diskVars, watching, notifs, debounceTimers, timers, running, listeners,
                   emitted, lastEvent, since, burst, boot>>
    /\ UNCHANGED <<syncVars, parseVars, mineVars>>

\* the subscriptions after startWatching(): one per project directory that
\* exists and one on CLAUDE_DIR, none when the watcher is on already
WatchersAfterStart ==
    IF watching THEN watchers
    ELSE [d \in WDirs \cup {TopDir} |->
            IF d = TopDir \/ d \in dirs THEN watchers[d] + 1 ELSE watchers[d]]

\* startWatching()
StartWatching ==
    /\ running = <<>>
    /\ boot.pc # "syncAll"
    /\ watching' = TRUE
    /\ watchers' = WatchersAfterStart
    /\ UNCHANGED <<diskVars, notifs, topNotifs, debounceTimers, timers, running, listeners,
                   emitted, lastEvent, since, burst, boot>>
    /\ UNCHANGED <<syncVars, parseVars, mineVars>>

\* the armed timers are left to run
TimersKept(ts) == ts

\* for (const timer of debounceTimers.values()) clearTimeout(timer)
TimersCleared(ts) == {t \in ts : \A p \in Paths : debounceTimers[p] # t.id}

\* stopWatching(): a closed subscription delivers nothing more
StopWatching ==
    /\ running = <<>>
    /\ boot.pc # "syncAll"
    /\ watching' = FALSE
    /\ watchers' = [d \in WDirs \cup {TopDir} |-> 0]
    /\ notifs' = [p \in Paths |-> 0]
    /\ topNotifs' = [d \in WDirs |-> 0]
    /\ timers' = TimersCleared(timers)
    /\ debounceTimers' = [p \in Paths |-> 0]
    /\ burst' = [p \in Paths |-> IF burst[p] = "open" THEN "none" ELSE burst[p]]
    /\ UNCHANGED <<diskVars, running, listeners, emitted, lastEvent, since, boot>>
    /\ UNCHANGED <<syncVars, parseVars, mineVars>>

\* ---------------------------------------------------------------- start-up
BootOff == [pc |-> "off", todo |-> <<>>]

\* the transcripts discoverSessions finds, in the order of their mtime
Discovered ==
    {order \in SeqsUpTo(Paths, Cardinality(Paths)) :
        /\ \A p \in Paths : (size[p] > 0) <=> (\E i \in 1..Len(order) : order[i] = p)
        /\ \A i, j \in 1..Len(order) : order[i] = order[j] => i = j}

\* ensureInitialized() up to the first syncFile of syncAll; a call when
\* initialized is set returns at once
EnsureInitialized ==
    /\ running = <<>>
    /\ boot.pc = "off"
    /\ \E order \in Discovered : boot' = [pc |-> "syncAll", todo |-> order]
    /\ UNCHANGED <<diskVars, watching, watchers, notifs, topNotifs, debounceTimers, timers,
                   running, listeners, emitted, lastEvent, since, burst>>
    /\ UNCHANGED <<syncVars, parseVars, mineVars>>

\* syncAll: the next syncFile of the loop; what it throws leaves syncAll and
\* ensureInitialized, what it returns is collected and emitted to nobody
BootSync ==
    /\ boot.pc = "syncAll"
    /\ boot.todo # <<>>
    /\ cursor' = CursorAfter(Head(boot.todo))
    /\ boot' = IF SyncOutcome(Head(boot.todo)) = "threw"
               THEN [pc |-> "failed", todo |-> <<>>]
               ELSE [boot EXCEPT !.todo = Tail(@)]
    /\ UNCHANGED <<size, bad, dirs, watching, watchers, notifs, topNotifs, debounceTimers,
                   timers, running, listeners, emitted, lastEvent, since, burst>>
    /\ UNCHANGED <<syncVars, parseVars, mineVars>>

\* syncAll has returned: startWatching()
BootWatch ==
    /\ boot.pc = "syncAll"
    /\ boot.todo = <<>>
    /\ boot' = [pc |-> "done", todo |-> <<>>]
    /\ watching' = TRUE
    /\ watchers' = WatchersAfterStart
    /\ UNCHANGED <<diskVars, notifs, topNotifs, debounceTimers, timers, running, listeners,
                   emitted, lastEvent, since, burst>>
    /\ UNCHANGED <<syncVars, parseVars, mineVars>>

\* the module state of watcher.ts and init.ts when they are loaded, over the
\* project directories `existing`
\* the options of a call made with none, and no analysis call made yet; a
\* report records the call, whether it raised an exception, the value it
\* returned and (not part of the value) which analyses threw inside it
NoFrequency == 0 - 1
NoOptions == [minFrequency |-> NoFrequency]
NoReport == [call |-> "none", raised |-> FALSE, value |-> <<>>, failed |-> {}]

MineIdle ==
    /\ opts = NoOptions
    /\ report = NoReport

WatchIdle(existing) ==
    /\ size = [p \in Paths |-> 0]
    /\ bad = {}
    /\ cursor = [p \in Paths |-> 0]
    /\ dirs = existing
    /\ watching = FALSE
    /\ watchers = [d \in WDirs \cup {TopDir} |-> 0]
    /\ notifs = [p \in Paths |-> 0]
    /\ topNotifs = [d \in WDirs |-> 0]
    /\ debounceTimers = [p \in Paths |-> 0]
    /\ timers = {}
    /\ running = <<>>
    /\ listeners = <<>>
    /\ emitted = 0
    /\ lastEvent = [l \in ListenerIds |-> 0]
    /\ since = [p \in Paths |-> DebounceTicks]
    /\ burst = [p \in Paths |-> "none"]
    /\ boot = BootOff

SyncIdle ==
    /\ files = [p \in Paths |-> <<>>]
    /\ db = EmptyDb
    /\ txdb = EmptyDb
    /\ pc = "idle"
    /\ call = IdleCall
    /\ ret = NoOutcome
    /\ edits = 0

\* ---------------------------------------------------------------- specifications
Init ==
    /\ files = [p \in Paths |-> <<>>]
    /\ db = EmptyDb
    /\ txdb = EmptyDb
    /\ pc = "idle"
    /\ call = IdleCall
    /\ ret = NoOutcome
    /\ edits = 0
    /\ transcript = <<>>
    /\ parsed = NotParsed
    /\ WatchIdle(WDirs)
    /\ MineIdle

Next ==
    \/ \E path \in Paths : SyncBegin(path)
    \/ TxUpsertSession
    \/ TxUpsertTurn
    \/ TxCommit
    \/ SyncReturn
    \/ \E path \in Paths, line \in SyncLines : AppendLine(path, line)
    \/ \E path \in Paths : TruncateLine(path)
    \/ \E path \in Paths : RemoveFile(path)

Spec == Init /\ [][Next]_vars

InitParse ==
    /\ files = [p \in Paths |-> <<>>]
    /\ db = EmptyDb
    /\ txdb = EmptyDb
    /\ pc = "idle"
    /\ call = IdleCall
    /\ ret = NoOutcome
    /\ edits = 0
    /\ transcript \in SeqsUpTo(ParseLines, MaxEvents)
    /\ parsed = NotParsed
    /\ WatchIdle(WDirs)
    /\ MineIdle

NextParse == Parse

SpecParse == InitParse /\ [][NextParse]_vars

\* the watcher over project directories that exist when it starts
InitWatch ==
    /\ SyncIdle
    /\ transcript = <<>>
    /\ parsed = NotParsed
    /\ WatchIdle(WDirs)
    /\ MineIdle

NextWatch ==
    \/ StartWatching
    \/ StopWatching
    \/ \E path \in Paths : WriteTranscript(path, FALSE)
    \/ TouchDir("projA")
    \/ \E dir \in WDirs : DeliverTop(dir)
    \/ \E path \in Paths : Deliver(path)
    \/ Tick
    \/ \E t \in timers : FireBegin(t)
    \/ FireEnd

SpecWatch == InitWatch /\ [][NextWatch]_vars

\* the watcher with listeners, over transcripts syncFile may throw on
NextEmit ==
    \/ StartWatching
    \/ \E l \in ListenerIds : AddEventListener(l)
    \/ \E path \in Paths, broken \in BOOLEAN : WriteTranscript(path, broken)
    \/ \E path \in Paths : Deliver(path)
    \/ Tick
    \/ \E t \in timers : FireBegin(t)
    \/ FireEnd

SpecEmit == InitWatch /\ [][NextEmit]_vars

\* the lazy start-up, one project directory existing and one created later
InitBoot ==
    /\ SyncIdle
    /\ transcript = <<>>
    /\ parsed = NotParsed
    /\ WatchIdle({"projA"})
    /\ MineIdle

NextBoot ==
    \/ EnsureInitialized
    \/ BootSync
    \/ BootWatch
    \/ \E dir \in WDirs : CreateDir(dir)
    \/ \E path \in Paths, broken \in BOOLEAN : WriteTranscript(path, broken)
    \/ \E dir \in WDirs : DeliverTop(dir)
    \/ \E path \in Paths : Deliver(path)
    \/ Tick
    \/ \E t \in timers : FireBegin(t)
    \/ FireEnd

SpecBoot == InitBoot /\ [][NextBoot]_vars

\* ---------------------------------------------------------------- sync claims
Cursor(d, id) == IF HasSessionRow(d, id) THEN LastSyncedBytes(d, id) ELSE 0

ParsedOf(path, content) == parseTranscript(path, content)

\* C1: each session's turn_count equals the number of conversation_turns rows
\* persisted for that session, in every reachable store state.
C1_TurnCountMatchesRows ==
    \A r \in db.sessions : r.turn_count = Cardinality(TurnRows(db, r.id))

\* a step in which a syncFile call ends
CallEnds == pc' = "idle" /\ files' = files

\* C2: a second syncFile call on the same path, the file unmodified since a
\* first call that returned, returns zero events, opens no transaction and
\* leaves the store unchanged.
C2_Idempotent ==
    [][/\ (CallEnds /\ ret'.after \in {"returned", "committed"})
            => (ret'.result = "returned" /\ ret'.events = <<>> /\ db' = db)
       /\ (pc' # "idle" /\ call'.path = ret.path) => ret.result = "threw"]_vars

C2_Witness ==
    /\ pc = "idle"
    /\ ret.after = "committed"
    /\ ret.result = "returned"
    /\ ret.events = <<>>

\* C3: a syncFile call on a file whose byte length is at most the cursor
\* recorded for the session id it parses to returns zero events and changes
\* nothing in the store, whatever the file holds.
C3_CoarseSkip ==
    [][\A path \in Paths :
        LET p == ParsedOf(path, files[path])
        IN  (/\ SyncBegin(path)
             /\ ~p.threw
             /\ p.hasSession
             /\ HasSessionRow(db, p.session.id)
             /\ p.bytesRead <= LastSyncedBytes(db, p.session.id))
            => (/\ pc' = "idle"
                /\ db' = db
                /\ ret'.result = "returned"
                /\ ret'.events = <<>>)]_vars

\* the call skipped a file whose first prompt is not the one the store holds
C3_Witness ==
    LET p == ParsedOf(ret.path, files[ret.path])
    IN  /\ ret.result = "returned"
        /\ ret.events = <<>>
        /\ p.hasSession
        /\ Len(p.session.turns) > 0
        /\ HasSessionRow(db, p.session.id)
        /\ p.bytesRead <= LastSyncedBytes(db, p.session.id)
        /\ HasTurnRow(db, p.session.id, 1)
        /\ TurnRow(db, p.session.id, 1).user_prompt # p.session.turns[1].userPrompt

\* C4: no step lowers a session's last_synced_bytes; the commit of a call
\* raises the cursor of the session it synced, and nothing else raises one.
C4_CursorMonotone ==
    [][/\ \A id \in SessionIds : Cursor(db', id) >= Cursor(db, id)
       /\ (pc = "turns" /\ pc' = "committed")
            => Cursor(db', call.session.id) > Cursor(db, call.session.id)
       /\ \A id \in SessionIds :
            Cursor(db', id) > Cursor(db, id)
                => (pc = "turns" /\ pc' = "committed" /\ id = call.session.id)]_vars

\* a second commit for a session that already had a cursor
C4_Witness ==
    /\ pc = "committed"
    /\ ret.committed
    /\ ret.events[1].sessionId = call.session.id
    /\ Cursor(db, call.session.id) = call.bytes

\* what a reader of the committed store may rely on: a session row comes
\* with the turn rows 1..turn_count that its sync wrote
ReaderConsistent(d) ==
    \A r \in d.sessions : \A n \in 1..r.turn_count : HasTurnRow(d, r.id, n)

\* C5: a call whose session upsert or turn upsert throws leaves the store as
\* it was and produces no event; the store readers see never changes while a
\* transaction is open, and never holds a session row without the turn rows
\* of its sync.
C5_AllOrNothing ==
    [][/\ (pc \in {"session", "turns"} /\ pc' = "idle")
            => (db' = db /\ ret'.result = "threw" /\ ret'.events = <<>>)
       /\ (pc' \in {"session", "turns"}) => db' = db
       /\ ReaderConsistent(db')]_vars

\* a call threw at a turn upsert, after its session upsert had succeeded
C5_Witness ==
    LET p == ParsedOf(ret.path, files[ret.path])
    IN  /\ ret.result = "threw"
        /\ p.hasSession
        /\ ~SessionBindFails(p.session)
        /\ \E k \in 1..Len(p.session.turns) : TurnBindFails(p.session.turns[k])

\* C6: a call that commits returns exactly one session_updated event, with the
\* parsed session id and the turn_count the store holds after the commit; a
\* call that ends without a commit returns none; the event list stays empty
\* until the transaction has committed.
C6_OneEventPerCommit ==
    [][/\ (pc = "committed" /\ pc' = "idle")
            => (/\ Len(ret'.events) = 1
                /\ ret'.events[1].type = "session_updated"
                /\ ret'.events[1].sessionId = ParsedOf(call.path, files[call.path]).session.id
                /\ HasSessionRow(db', ret'.events[1].sessionId)
                /\ ret'.events[1].turnCount
                       = SessionRow(db', ret'.events[1].sessionId).turn_count)
       /\ (CallEnds /\ pc # "committed") => (ret'.events = <<>> /\ db' = db)
       /\ call'.events = <<>>]_vars

C6_Witness ==
    /\ pc = "idle"
    /\ ret.committed
    /\ Len(ret.events) = 1
    /\ ret.events[1].turnCount = 2

\* the text-extraction rule, stated on the content: what makes a human-prompt
\* event contribute no prompt
Blank(text) == \A i \in 1..Len(text) : text[i] \in WsTokens

BeginsWith(text, markers) ==
    \E i \in 1..Len(text) :
        text[i] \in markers /\ \A j \in 1..(i - 1) : text[j] \in WsTokens

BlockDropped(block) ==
    \/ block.type \notin {"string", "text"}
    \/ Blank(block.text)
    \/ /\ block.type = "text"
       /\ BeginsWith(block.text, SystemTokens \cup LocalCommandTokens
                                  \cup CommandNameTokens \cup InterruptedTokens)

DroppedByRule(entry) ==
    \/ ~entry.hasMessage
    \/ entry.form = "none"
    \/ /\ entry.form = "string"
       /\ \/ Blank(entry.text)
          \/ entry.text[1] \in SystemTokens \cup LocalCommandTokens
    \/ /\ entry.form = "blocks"
       /\ \A i \in 1..Len(entry.blocks) : BlockDropped(entry.blocks[i])

AllPromptsDropped(lines) ==
    \A i \in 1..Len(lines) :
        (lines[i].json = "object" /\ lines[i].type = "user") => DroppedByRule(lines[i])

HasUserEvent(lines) ==
    \E i \in 1..Len(lines) : lines[i].json = "object" /\ lines[i].type = "user"

\* C7: a transcript all of whose human-prompt events are dropped by
\* extractUserText parses to zero turns, and syncFile on it returns no events
\* and writes no session row and no turn row.
C7_DroppedPromptsNoSync ==
    [][\A path \in Paths :
        LET p == ParsedOf(path, files[path])
        IN  (SyncBegin(path) /\ HasUserEvent(files[path]) /\ AllPromptsDropped(files[path]))
            => (/\ ~p.threw
                /\ p.session.turns = <<>>
                /\ pc' = "idle"
                /\ db' = db
                /\ ret'.result = "returned"
                /\ ret'.events = <<>>)]_vars

\* syncFile returned on a file holding the system-reminder prompt and an
\* assistant event, and the store has no row for its session
C7_Witness ==
    /\ ret.result = "returned"
    /\ ret.events = <<>>
    /\ files[ret.path] = <<uSys, aRead>>
    /\ ~HasSessionRow(db, "s1")
    /\ TurnRows(db, "s1") = {}

\* ---------------------------------------------------------------- parser claims
\* the events of the transcript: the lines JSON.parse accepts
EventsOf(lines) == SelectLines(lines, {"object"})

\* the positions of the human-prompt events that survive the extraction rule
SurvivingAt(events) ==
    {i \in 1..Len(events) : events[i].type = "user" /\ ~DroppedByRule(events[i])}

\* the position of the k-th surviving prompt
KthSurviving(events, k) ==
    CHOOSE i \in SurvivingAt(events) :
        Cardinality({j \in SurvivingAt(events) : j <= i}) = k

\* the positions after the k-th surviving prompt and before the next one
RangeOf(events, k) ==
    {i \in 1..Len(events) :
        /\ i > KthSurviving(events, k)
        /\ \A j \in SurvivingAt(events) : j > KthSurviving(events, k) => i < j}

\* the assistant events of a range that carry a message
AssistantIn(events, range) ==
    {i \in range : events[i].type = "assistant" /\ events[i].hasMessage}

\* the content blocks of the assistant events of a range, in event and block order
RECURSIVE BlocksIn(_, _, _)
BlocksIn(events, range, i) ==
    IF i > Len(events) THEN <<>>
    ELSE (IF i \in AssistantIn(events, range) /\ events[i].form = "blocks"
          THEN events[i].blocks ELSE <<>>) \o BlocksIn(events, range, i + 1)

IsNamedToolUse(block) == block.type = "tool_use" /\ block.name # ""
IsNonBlankText(block) == block.type = "text" /\ ~Blank(block.text)

NamesOf(blocks) == [i \in 1..Len(blocks) |-> blocks[i].name]
TextsOf(blocks) == [i \in 1..Len(blocks) |-> blocks[i].text]

ParsedTurns == parsed.result.session.turns
ParsedSome == parsed.done /\ ~parsed.result.threw /\ parsed.result.hasSession

\* C8: the turns parseTranscript returns are numbered 1, 2, ..., n in list
\* order.
C8_TurnNumbersContiguous ==
    ParsedSome => \A k \in 1..Len(ParsedTurns) : ParsedTurns[k].turnNumber = k

C8_Witness ==
    /\ ParsedSome
    /\ Len(ParsedTurns) >= 2
    /\ \E i \in 1..Len(transcript) : transcript[i].json = "malformed"

\* C9: a returned session has one turn per surviving human-prompt event, the
\* k-th turn holding the k-th surviving prompt; a turn whose range holds no
\* assistant event has empty text, no tools and no response time.
C9_OneTurnPerSurvivingPrompt ==
    ParsedSome =>
        LET events == EventsOf(transcript)
        IN  /\ Len(ParsedTurns) = Cardinality(SurvivingAt(events))
            /\ \A k \in 1..Len(ParsedTurns) :
                 /\ ParsedTurns[k].userPromptAt = events[KthSurviving(events, k)].timestamp
                 /\ ParsedTurns[k].userPrompt = extractUserText(events[KthSurviving(events, k)])
                 /\ ParsedTurns[k].userPrompt # <<>>
                 /\ AssistantIn(events, RangeOf(events, k)) = {}
                      => /\ ParsedTurns[k].assistantTexts = <<>>
                         /\ ParsedTurns[k].assistantTools = <<>>
                         /\ ParsedTurns[k].assistantAt = TsNull

\* an assistant event comes first, and the first of two turns got no response
C9_Witness ==
    /\ ParsedSome
    /\ transcript[1].type = "assistant"
    /\ Len(ParsedTurns) = 2
    /\ ParsedTurns[1].assistantAt = TsNull

\* C10: a turn's tool list is the names of the named tool-use blocks of the
\* assistant events of its range, in event and block order, duplicates kept;
\* its texts are the non-blank text blocks of those events in order, and the
\* persisted text is their join by newline.
C10_ToolsAndTextsOfRange ==
    ParsedSome =>
        LET events == EventsOf(transcript)
        IN  \A k \in 1..Len(ParsedTurns) :
              LET blocks == BlocksIn(events, RangeOf(events, k), 1)
                  texts == TextsOf(SelectSeq(blocks, IsNonBlankText))
              IN  /\ ParsedTurns[k].assistantTools = NamesOf(SelectSeq(blocks, IsNamedToolUse))
                  /\ ToolsJsonOf(ParsedTurns[k]) = NamesOf(SelectSeq(blocks, IsNamedToolUse))
                  /\ ParsedTurns[k].assistantTexts = texts
                  /\ AssistantTextOf(ParsedTurns[k]) = JoinNL(texts)

\* one prompt followed by two assistant events that both use Read
C10_Witness ==
    /\ ParsedSome
    /\ transcript = <<uFix, aRead, aBash>>
    /\ Len(ParsedTurns) = 1
    /\ ParsedTurns[1].assistantTools = <<"Read", "Edit", "Bash", "Read">>
    /\ ParsedTurns[1].assistantTexts = <<<<"ok">>, <<"done">>>>

\* the markers of synthetic prompts: system reminder, local-command envelope,
\* slash-command echo, interrupted request, task notification, teammate
\* relay, skill template, continuation banner
SyntheticTokens ==
    SystemTokens \cup LocalCommandTokens \cup CommandNameTokens \cup InterruptedTokens
        \cup {"<task-notification>", "<teammate-message", "Base directory for this skill:",
              "This session is being continued"}

\* the content of a human-prompt event begins with a synthetic marker
BeginsSynthetic(entry) ==
    \/ entry.form = "string" /\ BeginsWith(entry.text, SyntheticTokens)
    \/ /\ entry.form = "blocks"
       /\ entry.blocks # <<>>
       /\ entry.blocks[1].type \in {"string", "text"}
       /\ BeginsWith(entry.blocks[1].text, SyntheticTokens)

\* the positions of the events that opened the turns of the parsed session
OpenedAt(events) == {KthSurviving(events, k) : k \in 1..Len(ParsedTurns)}

\* C11: a human-prompt event whose content begins with a synthetic marker
\* opens no turn, for plain string content and for block-list content.
C11_SyntheticPromptOpensNoTurn ==
    ParsedSome =>
        LET events == EventsOf(transcript)
        IN  \A i \in OpenedAt(events) : ~BeginsSynthetic(events[i])

\* the transcript without the lines that hold no structured event
WithoutMalformed(lines) == SelectLines(lines, {"object"})

\* C12: parseTranscript does not raise, and returns the session and turns it
\* returns for the transcript with the lines that hold no structured event
\* removed.
C12_MalformedLinesSkipped ==
    parsed.done =>
        LET clean == parseTranscript(ParsePath, WithoutMalformed(transcript))
        IN  /\ ~parsed.result.threw
            /\ parsed.result.hasSession = clean.hasSession
            /\ parsed.result.session = clean.session

SomeSessionId(events) ==
    \E i \in 1..Len(events) : Truthy(events[i].sessionId)

\* C14 as stated: a non-null parsed session has at least one turn.
C14_SessionHasTurn ==
    (parsed.done /\ parsed.result.hasSession) => Len(ParsedTurns) >= 1

\* C14: parseTranscript returns a null session exactly when no event carries
\* a session id; a session it returns holds one turn per surviving prompt,
\* which is none when no prompt survives.
C14_NullIffNoSessionId ==
    (parsed.done /\ ~parsed.result.threw) =>
        LET events == EventsOf(transcript)
        IN  /\ parsed.result.hasSession <=> SomeSessionId(events)
            /\ parsed.result.hasSession
                 => Len(ParsedTurns) = Cardinality(SurvivingAt(events))

\* a session id, and no prompt that survives: a session with no turns
C14_Witness ==
    /\ parsed.done
    /\ parsed.result.hasSession
    /\ ParsedTurns = <<>>
    /\ transcript = <<uSys, aRead>>

\* C13: on a path that cannot be read parseTranscript returns a null session
\* with zero bytes and does not raise, and syncFile returns no events and
\* leaves the store as it was.
C13_UnreadableFileIsNoSession ==
    [][\A path \in Paths :
        LET p == ParsedOf(path, files[path])
        IN  (SyncBegin(path) /\ files[path] = Unreadable)
            => (/\ ~p.threw
                /\ ~p.hasSession
                /\ p.bytesRead = 0
                /\ pc' = "idle"
                /\ db' = db
                /\ ret'.result = "returned"
                /\ ret'.events = <<>>)]_vars

\* syncFile returned on a removed transcript whose session the store holds
C13_Witness ==
    /\ ret.path \in Paths
    /\ files[ret.path] = Unreadable
    /\ ret.result = "returned"
    /\ ret.events = <<>>
    /\ db.sessions # {}

\* ---------------------------------------------------------------- watcher claims
TimersOf(path) == {t \in timers : t.path = path}

\* syncFile has been invoked for the current burst of the path
Synced(b) == b \in {"running", "threw", "returned", "committed"}

\* C15: for a burst of notifications on one path, each arriving before the
\* delay since the previous one has elapsed, syncFile is invoked once, and
\* only when the full delay has passed since the last notification; a burst
\* not yet synced has its timer armed, and a notification on another path
\* leaves the path's timer as it was.
C15_DebounceOncePerBurst ==
    [][\A path \in Paths :
        /\ burst'[path] # "twice"
        /\ (~Synced(burst[path]) /\ Synced(burst'[path])) => since[path] = DebounceTicks
        /\ burst'[path] = "open"
             => \E t \in TimersOf(path)' :
                    t.id = debounceTimers'[path] /\ t.remaining = DebounceTicks - since'[path]
        /\ \A other \in Paths \ {path} :
             (watching' /\ notifs'[other] < notifs[other])
                => (TimersOf(path)' = TimersOf(path)
                    /\ debounceTimers'[path] = debounceTimers[path])]_vars

\* two appends to a.jsonl were synced by one attempt, while a timer for
\* b.jsonl is armed
C15_Witness ==
    LET a == <<"projA", "a.jsonl">>
        b == <<"projB", "b.jsonl">>
    IN  /\ burst[a] = "committed"
        /\ cursor[a] = 2
        /\ emitted = 1
        /\ notifs[a] = 0
        /\ a \notin bad
        /\ TimersOf(b) # {}

\* C16: no path has more than one timer armed, and no path has more than one
\* syncFile attempt in progress, in every reachable state.
C16_OneTimerOneAttemptPerPath ==
    \A path \in Paths :
        /\ Cardinality(TimersOf(path)) <= 1
        /\ Cardinality({i \in 1..Len(running) : running[i] = path}) <= 1
        /\ \A t \in TimersOf(path) : debounceTimers[path] = t.id

\* two subscriptions on projA: the notification of one has armed the timer,
\* that of the other is still to be delivered
C16_Witness ==
    LET a == <<"projA", "a.jsonl">>
    IN  /\ watchers["projA"] = 2
        /\ notifs[a] >= 1
        /\ TimersOf(a) # {}
        /\ since[a] = 1

\* C17: when the debounced syncFile throws no listener is called, the path
\* has no timer entry, the subscriptions stay open, and a later notification
\* for the path arms a timer again.
C17_SyncErrorSwallowed ==
    [][/\ (running # <<>> /\ running' = <<>> /\ SyncOutcome(Head(running)) = "threw")
            => (/\ lastEvent' = lastEvent
                /\ emitted' = emitted
                /\ debounceTimers'[Head(running)] = 0
                /\ \A t \in timers' : t.path # Head(running)
                /\ watchers' = watchers
                /\ watching' = watching)
       /\ \A path \in Paths :
            (burst[path] = "threw" /\ notifs'[path] < notifs[path] /\ watching')
                => (/\ debounceTimers'[path] # 0
                    /\ \E t \in TimersOf(path)' :
                         t.id = debounceTimers'[path] /\ t.remaining = DebounceTicks)]_vars

\* the attempt for a path threw with a listener registered and the
\* subscription on its directory open
C17_Witness ==
    \E path \in Paths :
        /\ path \in bad
        /\ burst[path] = "threw"
        /\ cursor[path] < size[path]
        /\ debounceTimers[path] = 0
        /\ listeners # <<>>
        /\ emitted = 0
        /\ watchers[DirOf(path)] = 1
        /\ notifs[path] = 0

\* C18: an event passed to emit reaches every registered listener, whatever
\* the listeners called before it throw; so does every later event.
C18_ListenerErrorIsolated ==
    [][emitted' # emitted
          => \A i \in 1..Len(listeners) : lastEvent'[listeners[i]] = emitted']_vars

\* the second event has reached L2, registered after L1, which throws
C18_Witness ==
    /\ listeners = <<"L1", "L2">>
    /\ emitted = 2
    /\ lastEvent["L1"] = 2
    /\ lastEvent["L2"] = 2

\* C19: once stopWatching has returned no subscription is open and no timer
\* is armed, and until startWatching is called no syncFile attempt starts
\* and no event is emitted.
C19_StoppedIsQuiet ==
    [][/\ ~watching' => (/\ \A d \in WDirs \cup {TopDir} : watchers'[d] = 0
                         /\ timers' = {}
                         /\ \A p \in Paths : debounceTimers'[p] = 0 /\ notifs'[p] = 0
                         /\ \A d \in WDirs : topNotifs'[d] = 0)
       /\ (~watching /\ ~watching') => (running' = <<>> /\ emitted' = emitted)]_vars

\* the watcher was stopped with a notification delivered and its timer armed
C19_Witness ==
    \E path \in Paths :
        /\ ~watching
        /\ since[path] = 1
        /\ burst[path] = "none"
        /\ size[path] > cursor[path]
        /\ path \notin bad

\* nothing is left to run: start-up is over, no notification is pending, no
\* timer is armed and no attempt is in progress
Quiescent ==
    /\ boot.pc = "done"
    /\ watching
    /\ running = <<>>
    /\ timers = {}
    /\ \A p \in Paths : notifs[p] = 0
    /\ \A d \in WDirs : topNotifs[d] = 0

\* C20: a transcript that was appended to and is left unchanged is synced in
\* full once start-up is over and the watcher has nothing left to run.
C20_QuiescentIsSynced ==
    Quiescent => \A p \in Paths : p \notin bad => cursor[p] = size[p]

\* ---------------------------------------------------------------- errors and merges
\* C21: an error syncFile raises for one file does not leave syncAll: the
\* loop goes on to the remaining files and ensureInitialized goes on to
\* startWatching.
C21_SyncAllSurvivesError ==
    boot.pc # "failed"

\* the assistant events of the k-th turn's range that carry a model
ModelEventsIn(events, k) ==
    {i \in AssistantIn(events, RangeOf(events, k)) : Truthy(events[i].model)}

Least(S) == CHOOSE i \in S : \A j \in S : i <= j
Greatest(S) == CHOOSE i \in S : \A j \in S : i >= j

\* C28 as stated: a turn's model is that of the first assistant event of the
\* turn that carries one.
C28_FirstModelKept ==
    ParsedSome =>
        LET events == EventsOf(transcript)
        IN  \A k \in 1..Len(ParsedTurns) :
              ModelEventsIn(events, k) # {}
                 => ParsedTurns[k].model = events[Least(ModelEventsIn(events, k))].model

\* C28: a turn's model is that of the last assistant event of the turn that
\* carries one, and null when none does.
C28_LastModelWins ==
    ParsedSome =>
        LET events == EventsOf(transcript)
        IN  \A k \in 1..Len(ParsedTurns) :
              ParsedTurns[k].model =
                  IF ModelEventsIn(events, k) = {} THEN NULL
                  ELSE events[Greatest(ModelEventsIn(events, k))].model

\* one turn answered by an event of model m1 and then one of model m2
C28_Witness ==
    /\ ParsedSome
    /\ transcript = <<uFix, aRead, aBash>>
    /\ ParsedTurns[1].model = "m2"

\* the step is the commit of a syncFile call
Commits == pc = "turns" /\ pc' = "committed"

\* C29 as stated: once a session row has a version or a branch, no step
\* changes it.
C29_VersionKeptOnceSet ==
    [][\A id \in SessionIds :
        HasSessionRow(db, id) =>
            /\ SessionRow(db, id).version # NULL
                 => SessionRow(db', id).version = SessionRow(db, id).version
            /\ SessionRow(db, id).git_branch # NULL
                 => SessionRow(db', id).git_branch = SessionRow(db, id).git_branch]_vars

\* C29: on re-sync of an existing session, version and git branch take the
\* value of the new parse when it has one and keep the stored value when it
\* has none; no other step changes them.
C29_VersionLatestNonNull ==
    [][\A id \in SessionIds :
        HasSessionRow(db, id) =>
            LET old == SessionRow(db, id)
                new == SessionRow(db', id)
                resync == Commits /\ call.session.id = id
            IN  /\ HasSessionRow(db', id)
                /\ new.version =
                     IF resync /\ call.session.version # NULL
                     THEN call.session.version ELSE old.version
                /\ new.git_branch =
                     IF resync /\ call.session.gitBranch # NULL
                     THEN call.session.gitBranch ELSE old.git_branch]_vars

\* a re-sync has replaced the version v1 of session s1 by v2
C29_Witness ==
    /\ pc = "committed"
    /\ call.session.id = "s1"
    /\ call.session.version = "v2"
    /\ SessionRow(db, "s1").version = "v2"
    /\ files[<<"projA", "a.jsonl">>] = <<uFix>>
    /\ Cursor(db, "s1") = 6

\* C30 as stated: after a commit every parsed turn's row has the assistant
\* text, tool list, response time and model of the parse.
C30_RowsEqualLatestParse ==
    [][Commits =>
        \A k \in 1..Len(call.session.turns) :
            LET turn == call.session.turns[k]
                row == TurnRow(db', call.session.id, k)
            IN  /\ HasTurnRow(db', call.session.id, k)
                /\ row.assistant_text = JoinNL(turn.assistantTexts)
                /\ row.assistant_tools = turn.assistantTools
                /\ row.assistant_at = turn.assistantAt
                /\ row.model = turn.model]_vars

\* C30: after a commit every parsed turn's row has the assistant text, tool
\* list and response time of the parse, and its model when the parse has
\* one; when it has none the row keeps the model it had.
C30_RowsConverge ==
    [][Commits =>
        \A k \in 1..Len(call.session.turns) :
            LET turn == call.session.turns[k]
                id == call.session.id
                row == TurnRow(db', id, k)
            IN  /\ HasTurnRow(db', id, k)
                /\ row.assistant_text = JoinNL(turn.assistantTexts)
                /\ row.assistant_tools = turn.assistantTools
                /\ row.assistant_at = turn.assistantAt
                /\ row.model =
                     IF turn.model # NULL \/ ~HasTurnRow(db, id, k) THEN turn.model
                     ELSE TurnRow(db, id, k).model]_vars

\* a commit has left model m1 on the row of a turn the parse gives no model
C30_Witness ==
    /\ pc = "committed"
    /\ call.session.id = "s1"
    /\ call.session.turns[1].model = NULL
    /\ TurnRow(db, "s1", 1).model = "m1"
    /\ TurnRow(db, "s1", 1).assistant_tools = <<>>

\* ---------------------------------------------------------------- analyzer
\* The analyzer reads the store syncFile writes.  Timestamps of the stores
\* analysed here count hundredths of a second.  The analyses are modelled for
\* calls without a projectFilter and with the default number of days; the
\* comparison of started_at with datetime('now', '-N days') is the comparison
\* with WindowStart.
Seconds(n) == n * 100
WindowStart == Seconds(10)

\* WHERE s.started_at >= datetime('now', ?)
InWindow(s) == s.started_at >= WindowStart

\* opts.minFrequency ?? fallback
MinFrequencyOr(o, fallback) ==
    IF o.minFrequency = NoFrequency THEN fallback ELSE o.minFrequency

DefaultMinFrequency == 3
DefaultMinSessions == 2

\* String.prototype.toLowerCase, on the words that occur
ToLowerCase(w) ==
    CASE w = "Read" -> "read"
      [] w = "Edit" -> "edit"
      [] w = "Write" -> "write"
      [] w = "Bash" -> "bash"
      [] w = "Grep" -> "grep"
      [] w = "Glob" -> "glob"
      [] w = "Task" -> "task"
      [] w = "NotebookEdit" -> "notebookedit"
      [] w = "Fix" -> "fix"
      [] w = "Add" -> "add"
      [] OTHER -> w

\* String.prototype.length of a word
CharsOf(w) ==
    CASE w \in WsTokens -> 1
      [] w \in {"fix", "Fix", "add", "Add", "why"} -> 3
      [] w = "it" -> 2
      [] OTHER -> 13

RECURSIVE Length(_)
Length(s) == IF s = <<>> THEN 0 ELSE CharsOf(Head(s)) + Length(Tail(s))

\* a / b with the fraction dropped
TruncDiv(a, b) == a \div b

\* Math.round(a / b) and SQLite's ROUND(a / b) for a >= 0, b > 0, in exact
\* arithmetic
RoundDiv(a, b) == (2 * a + b) \div (2 * b)

Min(a, b) == IF a <= b THEN a ELSE b

\* Array.prototype.slice(0, n), LIMIT n
Take(s, n) == SubSeq(s, 1, Min(n, Len(s)))

\* Array.prototype.join(sep)
Join(parts, sep) ==
    IF parts = <<>> THEN <<>>
    ELSE [i \in 1..(2 * Len(parts) - 1) |->
             IF i % 2 = 1 THEN parts[(i + 1) \div 2] ELSE sep]

\* the elements of S as a list in ascending key order; the order of elements
\* with equal keys is one of those the sort may produce
RECURSIVE SortAsc(_, _)
SortAsc(S, key) ==
    IF S = {} THEN <<>>
    ELSE LET keys == {key[x] : x \in S}
             mid == CHOOSE k \in keys :
                        Cardinality({j \in keys : j < k}) = Cardinality(keys) \div 2
             one == CHOOSE x \in S : key[x] = mid
         IN  SortAsc({x \in S : key[x] < mid}, key)
             \o <<one>> \o SortAsc({x \in S : key[x] = mid} \ {one}, key)
             \o SortAsc({x \in S : key[x] > mid}, key)

\* Array.prototype.sort((a, b) => key(a) - key(b)): stable
StableSort(s, key) ==
    LET order == SortAsc(DOMAIN s, [i \in DOMAIN s |-> key[i] * (Len(s) + 1) + i])
    IN  [k \in DOMAIN s |-> s[order[k]]]

\* the sessions of the store in the order of their identifiers
SessionOrder == <<"s1", "s2", "s3", "s4", "s5", "s6", "s7">>
SessionRank(id) == CHOOSE i \in DOMAIN SessionOrder : SessionOrder[i] = id

\* conversation_turns JOIN sessions, within the window
WindowSessions(d) == {s \in d.sessions : InWindow(s)}
SessionOf(d, t) == SessionRow(d, t.session_id)
JoinedTurns(d) ==
    {t \in d.turns : HasSessionRow(d, t.session_id) /\ InWindow(SessionOf(d, t))}

\* the joined rows in the order of session identifier and turn number
TurnKey(t) == SessionRank(t.session_id) * 1000 + t.turn_number
InRowOrder(T) == SortAsc(T, [t \in T |-> TurnKey(t)])

\* -- 1. tool sequences
\* one row of a tool-sequence query before grouping: the tools, and the turn
\* and position they were found at
Occurrence(tools, t, pos) ==
    [seq |-> tools, session_id |-> t.session_id, turn_number |-> t.turn_number,
     pos |-> pos]

\* json_each(ct.assistant_tools) joined n times on consecutive keys
Ngrams(d, n) ==
    UNION {{Occurrence(SubSeq(t.assistant_tools, i, i + n - 1), t, i) :
               i \in 1..(Len(t.assistant_tools) - n + 1)} : t \in JoinedTurns(d)}

\* the tool lists of every length
SignaturesAnyLength(d) ==
    {Occurrence(t.assistant_tools, t, 0) :
        t \in {u \in JoinedTurns(d) : Len(u.assistant_tools) >= 1}}

\* json_array_length(ct.assistant_tools) >= 2
Signatures(d) ==
    {Occurrence(t.assistant_tools, t, 0) :
        t \in {u \in JoinedTurns(d) : Len(u.assistant_tools) >= 2}}

\* the join of a turn with every later turn of its session
CrossTurnsAnyDistance(d) ==
    LET T == {t \in JoinedTurns(d) : t.assistant_tools # <<>>}
        later == {p \in T \X T : /\ p[1].session_id = p[2].session_id
                                 /\ p[2].turn_number > p[1].turn_number}
    IN  {Occurrence(<<p[1].assistant_tools[Len(p[1].assistant_tools)],
                      p[2].assistant_tools[1]>>, p[1], p[2].turn_number) : p \in later}

\* last_tools JOIN first_tools ON the same session and the next turn number
CrossTurns(d) ==
    LET T == {t \in JoinedTurns(d) : t.assistant_tools # <<>>}
        adjacent == {p \in T \X T : /\ p[1].session_id = p[2].session_id
                                    /\ p[2].turn_number = p[1].turn_number + 1}
    IN  {Occurrence(<<p[1].assistant_tools[Len(p[1].assistant_tools)],
                      p[2].assistant_tools[1]>>, p[1], 0) : p \in adjacent}

\* GROUP BY seq: COUNT(*), COUNT(DISTINCT ct.session_id),
\* GROUP_CONCAT(DISTINCT s.project_path) split into a set
GroupBySeq(d, occs, type, sep) ==
    LET Of(q) == {o \in occs : o.seq = q}
    IN  {[type |-> type, sequence |-> Join(q, sep), count |-> Cardinality(Of(q)),
          sessionCount |-> Cardinality({o.session_id : o \in Of(q)}),
          projects |-> {SessionRow(d, o.session_id).project_path : o \in Of(q)} \ {NULL}] :
            q \in {o.seq : o \in occs}}

\* no threshold
HavingAny(rows, minFreq) == rows

\* HAVING sess >= ?
Having(rows, minFreq) == {r \in rows : r.sessionCount >= minFreq}

\* ORDER BY cnt DESC, sess DESC LIMIT n
RankedByCount(rows, n) ==
    Take(SortAsc(rows, [r \in rows |-> 0 - (r.count * 10000 + r.sessionCount)]), n)

\* ORDER BY sess DESC, cnt DESC LIMIT n (no count reaches 10000 here)
Ranked(rows, n) ==
    Take(SortAsc(rows, [r \in rows |-> 0 - (r.sessionCount * 10000 + r.count)]), n)

BigramLimit == 30
TrigramLimit == 20
SignatureLimit == 20
CrossTurnLimit == 15

NoProjects(rows) == [i \in DOMAIN rows |-> [rows[i] EXCEPT !.projects = {}]]

getToolSequences(d, o) ==
    LET minFreq == MinFrequencyOr(o, DefaultMinFrequency)
        bigrams == Ranked(Having(GroupBySeq(d, Ngrams(d, 2), "bigram", "->"), minFreq),
                          BigramLimit)
        trigrams == Ranked(Having(GroupBySeq(d, Ngrams(d, 3), "trigram", "->"), minFreq),
                           TrigramLimit)
        signatures == Ranked(Having(GroupBySeq(d, Signatures(d), "signature", "->"),
                                    minFreq), SignatureLimit)
        crossTurn == Ranked(Having(GroupBySeq(d, CrossTurns(d), "cross_turn", "->>"),
                                   minFreq), CrossTurnLimit)
    IN  bigrams \o trigrams \o signatures \o NoProjects(crossTurn)

\* -- 2. prompt clusters
VERB_GROUPS(w) ==
    CASE w \in {"fix", "debug", "repair", "resolve", "troubleshoot"} -> "fix"
      [] w \in {"add", "create", "implement", "build", "make", "generate", "write",
                "new"} -> "create"
      [] w \in {"update", "change", "modify", "refactor", "rename", "move", "adjust",
                "edit"} -> "modify"
      [] w \in {"remove", "delete", "drop", "clean"} -> "delete"
      [] w \in {"test", "run", "check", "verify", "validate", "lint"} -> "test"
      [] w \in {"show", "find", "search", "list", "look", "read", "get", "where",
                "what"} -> "read"
      [] w \in {"explain", "why", "how", "describe", "help"} -> "explain"
      [] w \in {"deploy", "push", "release", "publish"} -> "deploy"
      [] w \in {"install", "setup", "configure", "init"} -> "setup"
      [] OTHER -> "other"

\* row.user_prompt.trim().split(/\s+/)[0]?.toLowerCase() ?? ""
FirstWord(prompt) ==
    IF Trim(prompt) = <<>> THEN "" ELSE ToLowerCase(Head(Trim(prompt)))

\* String.prototype.slice(0, n): the words that fit whole
RECURSIVE Slice(_, _)
Slice(s, n) ==
    IF s = <<>> \/ CharsOf(Head(s)) > n THEN <<>>
    ELSE <<Head(s)>> \o Slice(Tail(s), n - CharsOf(Head(s)))

\* the values of a list in the order of their first occurrence: the keys of
\* a Map filled from the list
Keys(s) ==
    LET first == {i \in DOMAIN s : \A j \in 1..(i - 1) : s[j] # s[i]}
        order == SortAsc(first, [i \in first |-> i])
    IN  [k \in DOMAIN order |-> s[order[k]]]

RECURSIVE ToolsOf(_)
ToolsOf(rows) ==
    IF rows = <<>> THEN <<>>
    ELSE IF Len(rows) = 1 THEN rows[1].assistant_tools
    ELSE ToolsOf(SubSeq(rows, 1, Len(rows) \div 2))
         \o ToolsOf(SubSeq(rows, Len(rows) \div 2 + 1, Len(rows)))

Occurrences(s, x) == Cardinality({i \in DOMAIN s : s[i] = x})

ExampleLength == 200
TopToolsShown == 5

\* the prompts of the window whatever their length
PromptRowsAnyLength(d) == InRowOrder(JoinedTurns(d))

\* the prompts with 10 < LENGTH < 2000, of the window
PromptRows(d) ==
    InRowOrder({t \in JoinedTurns(d) :
                   Length(t.user_prompt) > 10 /\ Length(t.user_prompt) < 2000})

\* the cluster of the rows whose prompt begins with the verb
Cluster(verb, rows) ==
    LET n == Len(rows)
        tools == ToolsOf(rows)
        names == Keys(tools)
        topTools == Take(StableSort(names,
                            [i \in DOMAIN names |-> 0 - Occurrences(tools, names[i])]),
                         TopToolsShown)
        examples == (IF n >= 1 THEN <<rows[1].user_prompt>> ELSE <<>>)
                    \o (IF n >= 3 THEN <<rows[(n \div 2) + 1].user_prompt>> ELSE <<>>)
                    \o (IF n >= 2 THEN <<rows[n].user_prompt>> ELSE <<>>)
    IN  [actionVerb |-> verb, canonicalVerb |-> VERB_GROUPS(verb), promptCount |-> n,
         sessionCount |-> Cardinality({rows[i].session_id : i \in DOMAIN rows}),
         examples |-> [i \in DOMAIN examples |-> Slice(examples[i], ExampleLength)],
         topTools |-> topTools]

getPromptClusters(d, o) ==
    LET minFreq == MinFrequencyOr(o, DefaultMinFrequency)
        rows == PromptRows(d)
        verbs == Keys([i \in DOMAIN rows |-> FirstWord(rows[i].user_prompt)])
        Group(v) == SelectSeq(rows, LAMBDA r : FirstWord(r.user_prompt) = v)
        kept == SelectSeq(verbs, LAMBDA v : ~(Len(Group(v)) < minFreq))
        results == [i \in DOMAIN kept |-> Cluster(kept[i], Group(kept[i]))]
    IN  StableSort(results, [i \in DOMAIN results |-> 0 - results[i].promptCount])

\* -- 3. project profiles
\* the project paths of the stores analysed, in the order of ORDER BY
ProjectOrder == <<"/other", "/proj", "unknown">>
ProjectRank(path) == CHOOSE i \in DOMAIN ProjectOrder : ProjectOrder[i] = path

ProjectOf(d, o) == SessionRow(d, o.session_id).project_path

\* the tool distribution of a project: uses are its rows of
\* conversation_turns x json_each, all the rows of the window
Distribution(uses, all) ==
    LET tools == {o.seq[1] : o \in uses}
        Count(t) == Cardinality({o \in uses : o.seq = <<t>>})
        Global(t) == Cardinality({o \in all : o.seq = <<t>>})
        projTotal == Cardinality(uses)
        globalTotal == Cardinality(all)
        byCount == SortAsc(tools, [t \in tools |-> 0 - Count(t)])
    IN  [i \in DOMAIN byCount |->
            [tool |-> byCount[i], count |-> Count(byCount[i]),
             pct |-> RoundDiv(1000 * Count(byCount[i]), projTotal),
             enrichment |->
                 IF Global(byCount[i]) > 0
                 THEN RoundDiv(100 * Count(byCount[i]) * globalTotal,
                               projTotal * Global(byCount[i]))
                 ELSE 0]]

\* the signatures of at least two tools that one project alone uses, and
\* uses at least twice
UniqueSequences(d, path) ==
    LET known == {t \in JoinedTurns(d) :
                     t.assistant_tools # <<>> /\ SessionOf(d, t).project_path # NULL}
        Spread(sig) ==
            Cardinality({SessionOf(d, t).project_path :
                            t \in {u \in known : u.assistant_tools = sig}})
        Cnt(sig) ==
            Cardinality({t \in known : /\ t.assistant_tools = sig
                                       /\ SessionOf(d, t).project_path = path})
        sigs == {t.assistant_tools :
                    t \in {u \in known : /\ SessionOf(d, u).project_path = path
                                         /\ Len(u.assistant_tools) >= 2}}
        kept == {sig \in sigs : Spread(sig) = 1 /\ Cnt(sig) >= 2}
        byCount == SortAsc(kept, [sig \in kept |-> 0 - Cnt(sig)])
    IN  [i \in DOMAIN byCount |->
            [sequence |-> Join(byCount[i], "->"), count |-> Cnt(byCount[i])]]

getProjectProfiles(d, o) ==
    LET all == Ngrams(d, 1)
        paths == {ProjectOf(d, u) : u \in all} \ {NULL}
        byPath == SortAsc(paths, [p \in paths |-> ProjectRank(p)])
        Sessions(p) == {s \in WindowSessions(d) : s.project_path = p}
        Profile(p) ==
            [projectPath |-> p,
             sessionCount |-> Cardinality(Sessions(p)),
             turnCount |-> Cardinality({t \in d.turns :
                                           \E s \in Sessions(p) : s.id = t.session_id}),
             toolDistribution |-> Distribution({u \in all : ProjectOf(d, u) = p}, all),
             uniqueSequences |-> UniqueSequences(d, p)]
        results == [i \in DOMAIN byPath |-> Profile(byPath[i])]
    IN  StableSort(results, [i \in DOMAIN results |-> 0 - results[i].turnCount])

\* -- 4. workflow arcs
\* toolsToPhase with the test for bash ahead of the test for the editing tools
toolsToPhaseRunFirst(tools) ==
    LET set == {ToLowerCase(tools[i]) : i \in DOMAIN tools}
    IN  IF "bash" \in set THEN "run"
        ELSE IF "edit" \in set \/ "write" \in set \/ "notebookedit" \in set THEN "edit"
        ELSE IF "read" \in set \/ "glob" \in set \/ "grep" \in set THEN "explore"
        ELSE IF "task" \in set THEN "delegate"
        ELSE "other"

toolsToPhase(tools) ==
    LET set == {ToLowerCase(tools[i]) : i \in DOMAIN tools}
    IN  IF "edit" \in set \/ "write" \in set \/ "notebookedit" \in set THEN "edit"
        ELSE IF "bash" \in set THEN "run"
        ELSE IF "read" \in set \/ "glob" \in set \/ "grep" \in set THEN "explore"
        ELSE IF "task" \in set THEN "delegate"
        ELSE "other"

ArcMinTurns == 3
ArcMaxTurns == 30
SessionIdsShown == 5

\* the phase of each persisted turn of the session, in turn order
PhasesOf(d, id) ==
    LET rows == InRowOrder(TurnRows(d, id))
    IN  [i \in DOMAIN rows |->
            IF rows[i].assistant_tools # <<>> THEN toolsToPhase(rows[i].assistant_tools)
            ELSE "other"]

\* the sessions of the window whatever their turn count
ArcSessionsAnyLength(d) ==
    LET ids == {s.id : s \in {r \in WindowSessions(d) : TurnRows(d, r.id) # {}}}
    IN  SortAsc(ids, [id \in ids |-> SessionRank(id)])

\* the sessions the turns query returns rows of, in ORDER BY ct.session_id
ArcSessions(d) ==
    LET ids == {s.id : s \in {r \in WindowSessions(d) :
                                 /\ r.turn_count >= ArcMinTurns
                                 /\ r.turn_count <= ArcMaxTurns
                                 /\ TurnRows(d, r.id) # {}}}
    IN  SortAsc(ids, [id \in ids |-> SessionRank(id)])

RECURSIVE TotalTurns(_, _)
TotalTurns(d, ids) ==
    IF ids = <<>> THEN 0 ELSE Len(PhasesOf(d, Head(ids))) + TotalTurns(d, Tail(ids))

getWorkflowArcs(d, o) ==
    LET minSessions == MinFrequencyOr(o, DefaultMinSessions)
        ids == ArcSessions(d)
        arcs == Keys([i \in DOMAIN ids |-> PhasesOf(d, ids[i])])
        Group(phases) == SelectSeq(ids, LAMBDA id : PhasesOf(d, id) = phases)
        kept == SelectSeq(arcs, LAMBDA phases : ~(Len(Group(phases)) < minSessions))
        results ==
            [i \in DOMAIN kept |->
                [arc |-> Join(kept[i], "->"), phases |-> kept[i],
                 sessionCount |-> Len(Group(kept[i])),
                 sessionIds |-> Take(Group(kept[i]), SessionIdsShown),
                 avgTurnCount |-> RoundDiv(TotalTurns(d, Group(kept[i])),
                                           Len(Group(kept[i])))]]
    IN  StableSort(results, [i \in DOMAIN results |-> 0 - results[i].sessionCount])

\* -- 5. friction points
MaxGapSeconds == 30
FrictionLimit == 50

\* (JULIANDAY(ct2.user_prompt_at) - JULIANDAY(ct1.assistant_at)) * 86400, in
\* hundredths of a second
RawGap(t, u) == u.user_prompt_at - t.assistant_at

\* the self-join without the condition on the gap
FrictionPairsAnyGap(d) ==
    {p \in JoinedTurns(d) \X d.turns :
        /\ p[1].session_id = p[2].session_id
        /\ p[2].turn_number = p[1].turn_number + 1
        /\ p[1].assistant_at # TsNull
        /\ p[2].user_prompt_at # TsNull}

\* the pairs of the self-join that pass the WHERE clause
FrictionPairs(d) ==
    {p \in JoinedTurns(d) \X d.turns :
        /\ p[1].session_id = p[2].session_id
        /\ p[2].turn_number = p[1].turn_number + 1
        /\ p[1].assistant_at # TsNull
        /\ p[2].user_prompt_at # TsNull
        /\ RawGap(p[1], p[2]) >= 0
        /\ RawGap(p[1], p[2]) <= Seconds(MaxGapSeconds)}

\* ROUND(gap, 1), in tenths of a second
GapSec(p) == RoundDiv(RawGap(p[1], p[2]), Seconds(1) \div 10)

getFrictionPoints(d, o) ==
    LET pairs == FrictionPairs(d)
        rows == Take(SortAsc(pairs, [p \in pairs |-> GapSec(p)]), FrictionLimit)
    IN  [i \in DOMAIN rows |->
            [sessionId |-> rows[i][1].session_id,
             turnNumber |-> rows[i][1].turn_number,
             prompt |-> Slice(rows[i][1].user_prompt, ExampleLength),
             retryPrompt |-> Slice(rows[i][2].user_prompt, ExampleLength),
             gapSeconds |-> GapSec(rows[i]),
             project |-> IF SessionOf(d, rows[i][1]).project_path = NULL THEN "unknown"
                         ELSE SessionOf(d, rows[i][1]).project_path]]

\* -- aggregate
DefaultDays == 30

getAnalysisStats(d, o) ==
    [sessionsAnalyzed |-> Cardinality(WindowSessions(d)),
     turnsAnalyzed |-> Cardinality({t \in d.turns :
                                       \E s \in WindowSessions(d) : s.id = t.session_id}),
     timeRangeDays |-> DefaultDays]

Analyses ==
    {"toolSequences", "promptClusters", "projectProfiles", "workflowArcs",
     "frictionPoints", "stats"}

Attempt(threw, value) == [threw |-> threw, value |-> value]

\* a safeCall that lets the exception of fn escape
safeCallUncaught(throws, value, fallback) ==
    IF throws THEN Attempt(TRUE, fallback) ELSE Attempt(FALSE, value)

\* safeCall(fn, fallback): throws tells whether fn() throws, value is what it
\* returns when it does not
safeCall(throws, value, fallback) ==
    IF throws THEN Attempt(FALSE, fallback) ELSE Attempt(FALSE, value)

ZeroStats == [sessionsAnalyzed |-> 0, turnsAnalyzed |-> 0, timeRangeDays |-> DefaultDays]

Returned(fn, value) == [call |-> fn, raised |-> FALSE, value |-> value, failed |-> {}]
Raised(fn) == [call |-> fn, raised |-> TRUE, value |-> <<>>, failed |-> {}]

\* analyzeAll(opts), the analyses of fails throwing (analyzedAt is left out)
analyzeAll(d, o, fails) ==
    LET toolSequences == safeCall("toolSequences" \in fails, getToolSequences(d, o), <<>>)
        promptClusters == safeCall("promptClusters" \in fails, getPromptClusters(d, o), <<>>)
        projectProfiles ==
            safeCall("projectProfiles" \in fails, getProjectProfiles(d, o), <<>>)
        workflowArcs == safeCall("workflowArcs" \in fails, getWorkflowArcs(d, o), <<>>)
        frictionPoints == safeCall("frictionPoints" \in fails, getFrictionPoints(d, o), <<>>)
        stats == safeCall("stats" \in fails, getAnalysisStats(d, o), ZeroStats)
    IN  IF \/ toolSequences.threw \/ promptClusters.threw \/ projectProfiles.threw
           \/ workflowArcs.threw \/ frictionPoints.threw \/ stats.threw
        THEN [Raised("analyzeAll") EXCEPT !.failed = fails]
        ELSE [Returned("analyzeAll",
                 [toolSequences |-> toolSequences.value,
                  promptClusters |-> promptClusters.value,
                  projectProfiles |-> projectProfiles.value,
                  workflowArcs |-> workflowArcs.value,
                  frictionPoints |-> frictionPoints.value,
                  stats |-> stats.value]) EXCEPT !.failed = fails]

\* -- the stores analysed
pFix == <<"Fix", "WS", "the-login-bug">>
pFixTests == <<"fix", "WS", "failing-tests">>
pAdd == <<"add", "WS", "an-endpoint">>
pShort == <<"fix", "WS", "it">>
pWhy == <<"WS", "why", "WS", "does-it-fail">>

\* one turn of a session: its prompt and tools, the time the assistant took
\* to respond and the time the user then took to send the next prompt
MinedTurn(prompt, tools, think, gap) ==
    [prompt |-> prompt, tools |-> tools, think |-> think, gap |-> gap]

ShapeD ==
    <<MinedTurn(pFix, <<"Read">>, 300, 104),
      MinedTurn(pAdd, <<"Grep", "Read">>, 300, 101),
      MinedTurn(pFixTests, <<"Edit">>, 300, 3001),
      MinedTurn(pShort, <<"Bash">>, 300, 0)>>

ShapeC ==
    <<MinedTurn(pFix, <<"Read", "Edit", "Bash">>, 300, 0),
      MinedTurn(pFix, <<"Read", "Edit", "Bash">>, 300, 0 - 50),
      MinedTurn(pWhy, <<>>, 300, 0)>>

ShapeE ==
    <<MinedTurn(pAdd, <<"Read", "Edit">>, 300, 3000),
      MinedTurn(pAdd, <<"Bash">>, 300, 1495),
      MinedTurn(pFixTests, <<"Task">>, 300, 0)>>

ShapeShort ==
    <<MinedTurn(pFix, <<"Read", "Edit", "Bash">>, 300, 2995),
      MinedTurn(pAdd, <<"Grep">>, 300, 0)>>

Shapes == {ShapeD, ShapeC, ShapeE, ShapeShort}

\* the time the turns a..b of the shape take
RECURSIVE Elapsed(_, _, _)
Elapsed(shape, a, b) ==
    IF a > b THEN 0
    ELSE IF a = b THEN shape[a].think + shape[a].gap
    ELSE Elapsed(shape, a, (a + b) \div 2) + Elapsed(shape, (a + b) \div 2 + 1, b)

PromptAt(shape, k, start) == start + Elapsed(shape, 1, k - 1)

\* the rows syncFile leaves for a transcript of the shape
Mined(id, project, started, shape) ==
    [session |->
        [id |-> id, project_path |-> project, project_hash |-> "hash",
         jsonl_path |-> <<"projA", "a.jsonl">>, started_at |-> started,
         last_activity_at |-> started, version |-> NULL, git_branch |-> NULL,
         turn_count |-> Len(shape), last_synced_bytes |-> Len(shape)],
     turns |->
        {[session_id |-> id, turn_number |-> k, user_prompt |-> shape[k].prompt,
          user_prompt_at |-> PromptAt(shape, k, started),
          assistant_text |-> <<>>, assistant_tools |-> shape[k].tools,
          assistant_at |-> PromptAt(shape, k, started) + shape[k].think,
          model |-> NULL] : k \in DOMAIN shape}]

StoreOf(mined) ==
    [sessions |-> {m.session : m \in mined}, turns |-> UNION {m.turns : m \in mined}]

\* four sessions, each absent or of one of the shapes; s4 started before the
\* window
Slots == {"s1", "s2", "s3", "s4"}
SlotProject(id) == IF id = "s3" THEN "/other" ELSE "/proj"
SlotStart(id) == IF id = "s4" THEN Seconds(5) ELSE Seconds(20)

SmallStores ==
    {StoreOf({Mined(id, SlotProject(id), SlotStart(id), choice[id]) :
                 id \in {x \in Slots : choice[x] # <<>>}}) :
        choice \in [Slots -> Shapes \cup {<<>>}]}

\* a project whose 201 tool uses hold the only use of Edit, and one use of
\* Read in another project
HeavyStore ==
    StoreOf({Mined("s1", "/proj", Seconds(20),
                   <<MinedTurn(pFix, [i \in 1..200 |-> "Read"] \o <<"Edit">>, 300, 0)>>),
             Mined("s3", "/other", Seconds(20),
                   <<MinedTurn(pAdd, <<"Read">>, 300, 0)>>)})

\* a session of n turns whose gaps run from just below 0 to just above 30 s
LongShape(n) ==
    [i \in 1..n |-> MinedTurn(pAdd, <<"Read">>, 300,
                              ((i * 7) % 11) * 300 + ((i % 5) - 2) * 3)]

LongStores == {StoreOf({Mined("s5", "/proj", Seconds(20), LongShape(n))}) : n \in {40, 58, 64}}

\* six sessions of one shape and a seventh of another
ManyStore ==
    StoreOf({Mined(id, "/proj", Seconds(20), ShapeD) :
                id \in {"s1", "s2", "s3", "s4", "s5", "s6"}}
            \cup {Mined("s7", "/other", Seconds(20), ShapeC)})

MineStores == SmallStores \cup {HeavyStore, ManyStore} \cup LongStores

\* -- analysis calls
InitMine ==
    /\ files = [p \in Paths |-> <<>>]
    /\ db \in MineStores
    /\ txdb = db
    /\ pc = "idle"
    /\ call = IdleCall
    /\ ret = NoOutcome
    /\ edits = 0
    /\ transcript = <<>>
    /\ parsed = NotParsed
    /\ WatchIdle(WDirs)
    /\ opts \in {[minFrequency |-> n] : n \in {NoFrequency} \cup 1..MaxFrequency}
    /\ report = NoReport

Analyze(result) ==
    /\ report = NoReport
    /\ report' = result
    /\ UNCHANGED <<syncVars, parseVars, watchVars, opts>>

GetToolSequences == Analyze(Returned("getToolSequences", getToolSequences(db, opts)))
GetPromptClusters == Analyze(Returned("getPromptClusters", getPromptClusters(db, opts)))
GetProjectProfiles == Analyze(Returned("getProjectProfiles", getProjectProfiles(db, opts)))
GetWorkflowArcs == Analyze(Returned("getWorkflowArcs", getWorkflowArcs(db, opts)))
GetFrictionPoints == Analyze(Returned("getFrictionPoints", getFrictionPoints(db, opts)))
AnalyzeAll(fails) == Analyze(analyzeAll(db, opts, fails))

MaxFailures == 1
MaxSyncs == 2
MaxTools == 3
WideTurns == 24
MaxListeners == 3

NextMine ==
    \/ GetToolSequences
    \/ GetPromptClusters
    \/ GetProjectProfiles
    \/ GetWorkflowArcs
    \/ GetFrictionPoints
    \/ \E fails \in {f \in SUBSET Analyses : Cardinality(f) <= MaxFailures} : AnalyzeAll(fails)

SpecMine == InitMine /\ [][NextMine]_vars

\* ---------------------------------------------------------------- mined artifacts
\* what the call in report returned for one analysis: the value of the
\* function called directly, or the field of analyzeAll's report
ReturnedBy(fn, field) ==
    IF report.call = fn THEN report.value
    ELSE IF report.call = "analyzeAll" /\ ~report.raised THEN report.value[field]
    ELSE <<>>

ToolSequencesReturned == ReturnedBy("getToolSequences", "toolSequences")
PromptClustersReturned == ReturnedBy("getPromptClusters", "promptClusters")
ProjectProfilesReturned == ReturnedBy("getProjectProfiles", "projectProfiles")
WorkflowArcsReturned == ReturnedBy("getWorkflowArcs", "workflowArcs")
FrictionPointsReturned == ReturnedBy("getFrictionPoints", "frictionPoints")

\* C22: with minFrequency configured (>= 1), every tool sequence returned has
\* sessionCount >= minFrequency, every prompt cluster promptCount >=
\* minFrequency and every workflow arc sessionCount >= minFrequency.
C22_ArtifactsMeetThreshold ==
    opts.minFrequency >= 1 =>
        /\ \A i \in DOMAIN ToolSequencesReturned :
               ToolSequencesReturned[i].sessionCount >= opts.minFrequency
        /\ \A i \in DOMAIN PromptClustersReturned :
               PromptClustersReturned[i].promptCount >= opts.minFrequency
        /\ \A i \in DOMAIN WorkflowArcsReturned :
               WorkflowArcsReturned[i].sessionCount >= opts.minFrequency

\* a report with artifacts of the three kinds under a threshold of 2 that
\* some tool signature of the store does not meet
C22_Witness ==
    /\ report.call = "analyzeAll"
    /\ opts.minFrequency = 2
    /\ ToolSequencesReturned # <<>>
    /\ PromptClustersReturned # <<>>
    /\ WorkflowArcsReturned # <<>>
    /\ \E t \in JoinedTurns(db) :
           /\ Len(t.assistant_tools) >= 2
           /\ \A u \in JoinedTurns(db) :
                  u.assistant_tools = t.assistant_tools => u.session_id = t.session_id

\* the gap in hundredths of a second between the response of turn n of the
\* session and the prompt of its turn n + 1
GapAfter(id, n) == TurnRow(db, id, n + 1).user_prompt_at - TurnRow(db, id, n).assistant_at

\* turn n of the session and its turn n + 1 are persisted, in the window and
\* have a gap within [0, 30] seconds
Frictional(id, n) ==
    /\ HasTurnRow(db, id, n)
    /\ HasTurnRow(db, id, n + 1)
    /\ HasSessionRow(db, id)
    /\ SessionRow(db, id).started_at >= WindowStart
    /\ TurnRow(db, id, n).assistant_at # TsNull
    /\ TurnRow(db, id, n + 1).user_prompt_at # TsNull
    /\ GapAfter(id, n) >= 0
    /\ GapAfter(id, n) <= 30 * 100

\* the gap reported for the pair: tenths of a second, halves rounded up
ReportedGap(id, n) == (GapAfter(id, n) + 5) \div 10

\* C23: every friction point returned pairs turn N with turn N+1 of one
\* session, with a gap from turn N's response to turn N+1's prompt within
\* [0, 30] seconds, which it reports; the list is in ascending order of the
\* gaps, holds at most 50 entries, and no pair left out has a smaller gap
\* than a pair returned.
C23_FrictionPointsBounded ==
    LET F == FrictionPointsReturned
        returned == {<<F[i].sessionId, F[i].turnNumber>> : i \in DOMAIN F}
        left == {<<t.session_id, t.turn_number>> :
                    t \in {u \in db.turns : Frictional(u.session_id, u.turn_number)}}
                \ returned
    IN  /\ \A i \in DOMAIN F :
               /\ Frictional(F[i].sessionId, F[i].turnNumber)
               /\ F[i].gapSeconds = ReportedGap(F[i].sessionId, F[i].turnNumber)
        /\ \A i, j \in DOMAIN F : i < j => F[i].gapSeconds <= F[j].gapSeconds
        /\ \A i, j \in DOMAIN F :
               i # j => <<F[i].sessionId, F[i].turnNumber>>
                        # <<F[j].sessionId, F[j].turnNumber>>
        /\ Len(F) <= 50
        /\ report.call = "getFrictionPoints" =>
               /\ left # {} => Len(F) = 50
               /\ \A p \in left :
                      \A i \in DOMAIN F : ReportedGap(p[1], p[2]) >= F[i].gapSeconds

\* fifty friction points are returned of a store that has more pairs within
\* [0, 30] seconds, and pairs with a negative gap and a gap above 30 seconds
C23_Witness ==
    /\ report.call = "getFrictionPoints"
    /\ Len(report.value) = 50
    /\ \E t \in db.turns :
           /\ Frictional(t.session_id, t.turn_number)
           /\ \A i \in DOMAIN report.value : report.value[i].turnNumber # t.turn_number
    /\ \E t \in db.turns :
           HasTurnRow(db, t.session_id, t.turn_number + 1)
           /\ GapAfter(t.session_id, t.turn_number) < 0
    /\ \E t \in db.turns :
           HasTurnRow(db, t.session_id, t.turn_number + 1)
           /\ GapAfter(t.session_id, t.turn_number) > 30 * 100

\* the tool uses of the window, those of a project and those of a tool
Uses == Ngrams(db, 1)
UsesIn(path) == {u \in Uses : ProjectOf(db, u) = path}
UsesOf(tool, S) == {u \in S : u.seq = <<tool>>}

\* the tool is used in the project and nowhere else, and its share of the
\* project's tool uses exceeds its share of all tool uses
OnlyInAndAboveGlobal(tool, path) ==
    /\ UsesOf(tool, UsesIn(path)) # {}
    /\ UsesOf(tool, Uses) = UsesOf(tool, UsesIn(path))
    /\ Cardinality(UsesOf(tool, UsesIn(path))) * Cardinality(Uses)
           > Cardinality(UsesOf(tool, Uses)) * Cardinality(UsesIn(path))

\* the entries of the profiles returned, each with the path of its project
EnrichmentEntries ==
    LET R == ProjectProfilesReturned
    IN  UNION {{[path |-> R[i].projectPath, entry |-> R[i].toolDistribution[j]] :
                   j \in DOMAIN R[i].toolDistribution} : i \in DOMAIN R}

C25_FailureIsContained ==
    report.call = "analyzeAll" =>
        /\ ~report.raised
        /\ report.value.toolSequences =
               IF "toolSequences" \in report.failed THEN <<>>
               ELSE getToolSequences(db, opts)
        /\ report.value.promptClusters =
               IF "promptClusters" \in report.failed THEN <<>>
               ELSE getPromptClusters(db, opts)
        /\ report.value.projectProfiles =
               IF "projectProfiles" \in report.failed THEN <<>>
               ELSE getProjectProfiles(db, opts)
        /\ report.value.workflowArcs =
               IF "workflowArcs" \in report.failed THEN <<>>
               ELSE getWorkflowArcs(db, opts)
        /\ report.value.frictionPoints =
               IF "frictionPoints" \in report.failed THEN <<>>
               ELSE getFrictionPoints(db, opts)
        /\ report.value.stats =
               IF "stats" \in report.failed
               THEN [sessionsAnalyzed |-> 0, turnsAnalyzed |-> 0, timeRangeDays |-> 30]
               ELSE getAnalysisStats(db, opts)

\* analyzeAll has returned after getToolSequences threw on a store that has
\* tool sequences, prompt clusters, workflow arcs and friction points
C25_Witness ==
    /\ report.call = "analyzeAll"
    /\ report.failed = {"toolSequences"}
    /\ getToolSequences(db, opts) # <<>>
    /\ ~report.raised
    /\ report.value.toolSequences = <<>>
    /\ report.value.promptClusters # <<>>
    /\ report.value.workflowArcs # <<>>
    /\ report.value.frictionPoints # <<>>

\* the turns of the window whose tool list is the given one
TurnsWith(tools) ==
    {t \in db.turns :
        /\ t.assistant_tools = tools
        /\ \E r \in db.sessions : r.id = t.session_id /\ r.started_at >= WindowStart}

\* the threshold getToolSequences applies
SequenceThreshold == IF opts.minFrequency = NoFrequency THEN 3 ELSE opts.minFrequency

\* the tool lists of at least two tools that meet the threshold
FrequentLists ==
    {tools \in {t.assistant_tools : t \in db.turns} :
        /\ Len(tools) >= 2
        /\ Cardinality({t.session_id : t \in TurnsWith(tools)}) >= SequenceThreshold}

SignaturesReturned ==
    {ToolSequencesReturned[i] :
        i \in {j \in DOMAIN ToolSequencesReturned :
                  ToolSequencesReturned[j].type = "signature"}}

\* C26: getToolSequences reports every tool list of at least two tools that
\* is the tool list of turns of k >= minFrequency sessions of the window as a
\* signature with sessionCount k and count the number of those turns, when
\* no more than 20 lists qualify; every signature it reports is such a list.
C26_SignaturesReported ==
    report.call = "getToolSequences" =>
        /\ Cardinality(FrequentLists) <= 20 =>
               \A tools \in FrequentLists :
                   \E g \in SignaturesReturned :
                       /\ g.sequence = Join(tools, "->")
                       /\ g.sessionCount =
                              Cardinality({t.session_id : t \in TurnsWith(tools)})
                       /\ g.count = Cardinality(TurnsWith(tools))
        /\ \A g \in SignaturesReturned :
               \E tools \in FrequentLists : g.sequence = Join(tools, "->")

\* with minFrequency 2, the list Read, Edit, Bash of three turns of two
\* sessions is reported as a signature; the store also has a turn with one
\* tool and a list of two tools found in one session only
C26_Witness ==
    /\ report.call = "getToolSequences"
    /\ opts.minFrequency = 2
    /\ \E g \in SignaturesReturned :
           /\ g.sequence = <<"Read", "->", "Edit", "->", "Bash">>
           /\ g.sessionCount = 2
           /\ g.count = 3
    /\ \E t \in db.turns : TurnsWith(t.assistant_tools) # {} /\ Len(t.assistant_tools) = 1
    /\ \E t \in db.turns :
           /\ Len(t.assistant_tools) = 2
           /\ TurnsWith(t.assistant_tools) # {}
           /\ t.assistant_tools \notin FrequentLists

\* the sessions of the window with a turn count in [3, 30] whose persisted
\* turns have the given phases, turn by turn
SessionsWithArc(phases) ==
    {r.id : r \in {x \in db.sessions :
                      /\ x.started_at >= WindowStart
                      /\ x.turn_count >= 3
                      /\ x.turn_count <= 30
                      /\ PhasesOf(db, x.id) = phases}}

\* C27: each arc getWorkflowArcs returns stands for the sessions of the
\* window (turn count in [3, 30]) with that sequence of phases: sessionCount
\* is their number, avgTurnCount the rounded mean of their numbers of turns,
\* sessionIds at most 5 of them; no two arcs have the same phases and the
\* arcs come in descending order of sessionCount.
C27_ArcsGroupSessions ==
    LET A == WorkflowArcsReturned
    IN  /\ \A i \in DOMAIN A :
               /\ A[i].sessionCount = Cardinality(SessionsWithArc(A[i].phases))
               /\ A[i].sessionCount >= 1
               /\ \A id \in SessionsWithArc(A[i].phases) :
                      Cardinality(TurnRows(db, id)) = A[i].avgTurnCount
               /\ Len(A[i].sessionIds) <= 5
               /\ Len(A[i].sessionIds) = IF A[i].sessionCount < 5 THEN A[i].sessionCount ELSE 5
               /\ \A k \in DOMAIN A[i].sessionIds :
                      A[i].sessionIds[k] \in SessionsWithArc(A[i].phases)
               /\ \A k, l \in DOMAIN A[i].sessionIds :
                      k # l => A[i].sessionIds[k] # A[i].sessionIds[l]
        /\ \A i, j \in DOMAIN A : i # j => A[i].phases # A[j].phases
        /\ \A i, j \in DOMAIN A : i < j => A[i].sessionCount >= A[j].sessionCount

\* two arcs are returned, the first of six sessions of four turns each, of
\* which five are listed, the second of fewer sessions
C27_Witness ==
    /\ report.call = "getWorkflowArcs"
    /\ Len(report.value) = 2
    /\ report.value[1].phases = <<"explore", "explore", "edit", "run">>
    /\ report.value[1].sessionCount = 6
    /\ report.value[1].avgTurnCount = 4
    /\ Len(report.value[1].sessionIds) = 5
    /\ report.value[2].sessionCount = 1

\* ---------------------------------------------------------------- store shape
\* the turn numbers persisted for the session in the store
TurnNumbers(d, id) == {t.turn_number : t \in TurnRows(d, id)}

\* every session of the store has the turns 1..k for some k >= 1, one row
\* each, and every turn row is that of a session of the store
Contiguous(d) ==
    /\ \A r \in d.sessions :
           /\ TurnRows(d, r.id) # {}
           /\ TurnNumbers(d, r.id) = 1..Cardinality(TurnRows(d, r.id))
    /\ \A t \in d.turns : HasSessionRow(d, t.session_id)

\* C31: the turn numbers persisted for each session are 1..k for some k >= 1
\* in every committed store, and a sync writes the turns of its parse in
\* increasing order of turn number.
C31_TurnNumbersContiguous ==
    [][/\ Contiguous(db')
       /\ (pc = "turns" /\ pc' = "turns" /\ call'.next = call.next + 1) =>
              /\ HasTurnRow(txdb', call.session.id, call.session.turns[call.next].turnNumber)
              /\ \A i \in 1..(call.next - 1) :
                     call.session.turns[i].turnNumber
                         < call.session.turns[call.next].turnNumber]_vars

\* a second sync has committed a parse of one turn for a session that had two
\* turns persisted: its rows are still those of turns 1 and 2
C31_Witness ==
    /\ pc = "committed"
    /\ Len(call.session.turns) = 1
    /\ TurnNumbers(db, call.session.id) = {1, 2}

\* ---------------------------------------------------------------- arcs of synced stores
\* The store the analyzer reads, built by syncFile calls: each call syncs a
\* transcript whose parse is a session of n turns, with more bytes than the
\* session's cursor.
ArcTools(k) == IF k % 3 = 1 THEN <<"Read">> ELSE IF k % 3 = 2 THEN <<"Edit">> ELSE <<"Bash">>

ParsedShape(id, n) ==
    [id |-> id, projectPath |-> "/proj", projectHash |-> "projA",
     jsonlPath |-> <<"projA", "a.jsonl">>, startedAt |-> Seconds(20),
     lastActivityAt |-> Seconds(20) + 2 * n + 1, version |-> NULL, gitBranch |-> NULL,
     turns |-> [k \in 1..n |->
                   [turnNumber |-> k, userPrompt |-> pAdd,
                    userPromptAt |-> Seconds(20) + 2 * k, assistantTexts |-> <<>>,
                    assistantTools |-> ArcTools(k),
                    assistantAt |-> Seconds(20) + 2 * k + 1, model |-> NULL]]]

ArcLengths == {1, 3, 4, 30, 31}

\* syncFile is called on a transcript that parses to a session of n turns and
\* is longer than the session's cursor: the call passes the checks and opens
\* the transaction
SyncTranscript(id, n) ==
    /\ pc = "idle"
    /\ report = NoReport
    /\ edits < MaxSyncs
    /\ ~NoNewData(db, id, Cursor(db, id) + 1)
    /\ edits' = edits + 1
    /\ pc' = "session"
    /\ call' = [path |-> ParsedShape(id, n).jsonlPath, session |-> ParsedShape(id, n),
                bytes |-> Cursor(db, id) + 1, next |-> 1, events |-> <<>>]
    /\ txdb' = db
    /\ UNCHANGED <<files, db, ret, parseVars, watchVars, mineVars>>

InitArcs ==
    /\ SyncIdle
    /\ transcript = <<>>
    /\ parsed = NotParsed
    /\ WatchIdle(WDirs)
    /\ opts \in {[minFrequency |-> n] : n \in {NoFrequency} \cup 1..MaxFrequency}
    /\ report = NoReport

NextArcs ==
    \/ \E id \in {"s1", "s2"}, n \in ArcLengths : SyncTranscript(id, n)
    \/ TxUpsertSession
    \/ TxUpsertTurn
    \/ TxCommit
    \/ SyncReturn
    \/ GetWorkflowArcs

SpecArcs == InitArcs /\ [][NextArcs]_vars

\* C32: every arc returned has between 3 and 30 phases and an avgTurnCount
\* within [3, 30], and each session it lists has between 3 and 30 persisted
\* turns.
C32_ArcsWithinTurnRange ==
    \A i \in DOMAIN WorkflowArcsReturned :
        LET a == WorkflowArcsReturned[i]
        IN  /\ Len(a.phases) >= 3 /\ Len(a.phases) <= 30
            /\ a.avgTurnCount >= 3 /\ a.avgTurnCount <= 30
            /\ \A k \in DOMAIN a.sessionIds :
                   /\ Cardinality(TurnRows(db, a.sessionIds[k])) >= 3
                   /\ Cardinality(TurnRows(db, a.sessionIds[k])) <= 30

\* ---------------------------------------------------------------- phases of a turn
\* Stores of one session of three turns: the first turn used the tools of a
\* list drawn from the tool names, the second read a file, the third has no
\* tool list.
ToolNames == {"Edit", "Write", "NotebookEdit", "Bash", "Read", "Glob", "Grep", "Task", "WebFetch"}
ToolLists == SeqsUpTo(ToolNames, MaxTools) \ {<<>>}

PhaseShape(tools) ==
    <<MinedTurn(pFix, tools, 300, 100), MinedTurn(pAdd, <<"Read">>, 300, 100),
      MinedTurn(pWhy, <<>>, 300, 100)>>
PhaseStores == {StoreOf({Mined("s1", "/proj", Seconds(20), PhaseShape(l))}) : l \in ToolLists}

InitPhase ==
    /\ files = [p \in Paths |-> <<>>]
    /\ db \in PhaseStores
    /\ txdb = db
    /\ pc = "idle"
    /\ call = IdleCall
    /\ ret = NoOutcome
    /\ edits = 0
    /\ transcript = <<>>
    /\ parsed = NotParsed
    /\ WatchIdle(WDirs)
    /\ opts = [minFrequency |-> 1]
    /\ report = NoReport

NextPhase == GetWorkflowArcs

SpecPhase == InitPhase /\ [][NextPhase]_vars

\* the phase the precedence edit > run > explore > delegate > other gives to a
\* set of tool names
PhaseOfNames(names) ==
    IF names \cap {"Edit", "Write", "NotebookEdit"} # {} THEN "edit"
    ELSE IF "Bash" \in names THEN "run"
    ELSE IF names \cap {"Read", "Glob", "Grep"} # {} THEN "explore"
    ELSE IF "Task" \in names THEN "delegate"
    ELSE "other"

\* the tool list persisted for turn n of session s1
ToolsOfTurn(n) == TurnRow(db, "s1", n).assistant_tools
NamesOfTurn(n) == {ToolsOfTurn(n)[i] : i \in DOMAIN ToolsOfTurn(n)}

\* C33: the phase of a turn is decided by the set of its tool names alone, with
\* the precedence edit > run > explore > delegate > other, whatever the order
\* and the multiplicity of the names; a turn with no tool list is "other".
C33_PhasePrecedence ==
    report.call = "getWorkflowArcs" =>
        /\ Len(WorkflowArcsReturned) = 1
        /\ Len(WorkflowArcsReturned[1].phases) = 3
        /\ \A n \in 1..3 : WorkflowArcsReturned[1].phases[n] = PhaseOfNames(NamesOfTurn(n))
        /\ ToolsOfTurn(3) = <<>> /\ WorkflowArcsReturned[1].phases[3] = "other"
        /\ \A other \in ToolLists :
               {other[i] : i \in DOMAIN other} = NamesOfTurn(1) =>
                   toolsToPhase(other) = WorkflowArcsReturned[1].phases[1]

\* a turn that delegated, ran a command and then edited, the editing tool named
\* last, is an edit turn
C33_Witness ==
    /\ report.call = "getWorkflowArcs"
    /\ ToolsOfTurn(1) = <<"Task", "Bash", "Edit">>
    /\ WorkflowArcsReturned[1].phases = <<"edit", "explore", "other">>

\* ---------------------------------------------------------------- ranking of tool sequences
\* Stores wide enough for the LIMIT of each query to cut: session s1 has n
\* turns whose tool lists vary with the turn number (one turn without tools,
\* some with a single tool), s2 and s3 repeat its first turns, s4 started
\* before the window.
ToolOrder == <<"Read", "Edit", "Bash", "Grep", "Glob", "Write", "Task", "NotebookEdit", "WebFetch">>
ToolAt(i) == ToolOrder[(i % 9) + 1]

WideTools(k) ==
    IF k % 13 = 0 THEN <<>>
    ELSE IF k % 11 = 0 THEN <<ToolAt(k)>>
    ELSE <<ToolAt(k), ToolAt(IF k % 4 = 0 THEN k + 1 ELSE 2 * k + 1), ToolAt(k \div 3)>>
         \o (IF k % 3 = 1 THEN <<ToolAt(5 * k)>> ELSE <<>>)

WideShape(n) == [k \in 1..n |-> MinedTurn(pAdd, WideTools(k), 300, 4000)]

WideStore(n, m2, m3) ==
    StoreOf({Mined("s1", "/proj", Seconds(20), WideShape(n)),
             Mined("s4", "/proj", Seconds(5), WideShape(3))}
            \cup {Mined("s2", "/proj", Seconds(20), WideShape(m)) : m \in {m2} \ {0}}
            \cup {Mined("s3", "/other", Seconds(20), WideShape(m)) : m \in {m3} \ {0}})

WideStores == {WideStore(n, m2, m3) : n \in 1..WideTurns, m2 \in {0, 3, 6}, m3 \in {0, 3, 6}}

InitRank ==
    /\ files = [p \in Paths |-> <<>>]
    /\ db \in WideStores
    /\ txdb = db
    /\ pc = "idle"
    /\ call = IdleCall
    /\ ret = NoOutcome
    /\ edits = 0
    /\ transcript = <<>>
    /\ parsed = NotParsed
    /\ WatchIdle(WDirs)
    /\ opts \in {[minFrequency |-> n] : n \in {NoFrequency} \cup 1..MaxFrequency}
    /\ report = NoReport

NextRank == GetToolSequences

SpecRank == InitRank /\ [][NextRank]_vars

SequenceTypes == {"bigram", "trigram", "signature", "cross_turn"}
LimitOf(type) ==
    CASE type = "bigram" -> 30 [] type = "trigram" -> 20
      [] type = "signature" -> 20 [] type = "cross_turn" -> 15

\* the entries of a category in the order returned, without their projects
Entry(r) == [sequence |-> r.sequence, count |-> r.count, sessionCount |-> r.sessionCount]
ReturnedOfType(type) ==
    LET list == SelectSeq(ToolSequencesReturned, LAMBDA r : r.type = type)
    IN  [i \in DOMAIN list |-> Entry(list[i])]

\* the groups of a category that meet the threshold, read off the store
OccurrencesOfType(type) ==
    CASE type = "bigram" -> Ngrams(db, 2) [] type = "trigram" -> Ngrams(db, 3)
      [] type = "signature" -> Signatures(db) [] type = "cross_turn" -> CrossTurns(db)
Qualifying(type) ==
    {Entry(g) : g \in {r \in GroupBySeq(db, OccurrencesOfType(type), type,
                                        IF type = "cross_turn" THEN "->>" ELSE "->") :
                          r.sessionCount >= SequenceThreshold}}

\* a is ranked at least as high as b
RankedNoLower(a, b) ==
    \/ a.sessionCount > b.sessionCount
    \/ a.sessionCount = b.sessionCount /\ a.count >= b.count

\* C34: within each category the sequences returned are in descending order of
\* distinct-session count, then of raw count; there are at most 30 bigrams, 20
\* trigrams, 20 signatures and 15 cross-turn transitions, and they are the
\* highest-ranked of the groups that meet the threshold.
C34_RankedAndLimited ==
    report.call = "getToolSequences" =>
        \A type \in SequenceTypes :
            LET list == ReturnedOfType(type)
                kept == {list[i] : i \in DOMAIN list}
            IN  /\ \A i, j \in DOMAIN list : i < j => RankedNoLower(list[i], list[j])
                /\ Len(list) <= LimitOf(type)
                /\ Len(list) = Min(LimitOf(type), Cardinality(Qualifying(type)))
                /\ Cardinality(kept) = Len(list)
                /\ kept \subseteq Qualifying(type)
                /\ \A g \in Qualifying(type) \ kept : \A r \in kept : RankedNoLower(r, g)

\* every limit cuts, and the bigrams returned differ in both counts
C34_Witness ==
    /\ report.call = "getToolSequences"
    /\ \A type \in SequenceTypes :
           /\ Len(ReturnedOfType(type)) = LimitOf(type)
           /\ Cardinality(Qualifying(type)) > LimitOf(type)
    /\ \E i, j \in DOMAIN ReturnedOfType("bigram") :
           /\ ReturnedOfType("bigram")[i].sessionCount > ReturnedOfType("bigram")[j].sessionCount
           /\ ReturnedOfType("bigram")[i].count < ReturnedOfType("bigram")[j].count
    /\ \E i, j \in DOMAIN ReturnedOfType("bigram") :
           /\ ReturnedOfType("bigram")[i].sessionCount = ReturnedOfType("bigram")[j].sessionCount
           /\ ReturnedOfType("bigram")[i].count > ReturnedOfType("bigram")[j].count

\* ---------------------------------------------------------------- cross-turn transitions
LastTool(t) == t.assistant_tools[Len(t.assistant_tools)]
FirstTool(t) == t.assistant_tools[1]

\* the turns N of the window's sessions whose last tool is a and whose session
\* has a turn N + 1 with first tool b
TransitionsAt(a, b) ==
    {t \in db.turns :
        /\ \E r \in db.sessions : r.id = t.session_id /\ r.started_at >= WindowStart
        /\ t.assistant_tools # <<>>
        /\ LastTool(t) = a
        /\ \E u \in db.turns : /\ u.session_id = t.session_id
                               /\ u.turn_number = t.turn_number + 1
                               /\ u.assistant_tools # <<>>
                               /\ FirstTool(u) = b}

TransitionEntry(a, b) ==
    LET at == TransitionsAt(a, b)
    IN  [sequence |-> <<a, "->>", b>>, count |-> Cardinality(at),
         sessionCount |-> Cardinality({t.session_id : t \in at})]

FrequentTransitions ==
    LET used == {t \in db.turns : t.assistant_tools # <<>>}
        all == {TransitionEntry(a, b) : a \in {LastTool(t) : t \in used},
                                         b \in {FirstTool(t) : t \in used}}
    IN  {e \in all : e.count > 0 /\ e.sessionCount >= SequenceThreshold}

\* C35: a cross-turn transition A ->> B is counted once for every pair of
\* turns (N, N + 1) of one session of the window in which A is the last tool of
\* turn N and B the first tool of turn N + 1, never across sessions or
\* non-adjacent turns: the count reported is the number of such pairs and the
\* session count the number of sessions having one; every transition meeting
\* the threshold is reported when the limit does not cut.
C35_CrossTurnCounts ==
    report.call = "getToolSequences" =>
        LET list == ReturnedOfType("cross_turn")
            frequent == FrequentTransitions
        IN  /\ \A i \in DOMAIN list : list[i] \in frequent
            /\ Cardinality(frequent) <= 15 => frequent = {list[i] : i \in DOMAIN list}

\* a transition of three sessions and one made more than once in a session are
\* reported from a store in which a turn without tools separates two turns
\* with tools and a session of before the window has the same turns
C35_Witness ==
    /\ report.call = "getToolSequences"
    /\ \E i \in DOMAIN ReturnedOfType("cross_turn") :
           ReturnedOfType("cross_turn")[i].sessionCount = 3
    /\ \E i \in DOMAIN ReturnedOfType("cross_turn") :
           ReturnedOfType("cross_turn")[i].count > ReturnedOfType("cross_turn")[i].sessionCount
    /\ Cardinality(FrequentTransitions) <= 15
    /\ HasTurnRow(db, "s1", 14) /\ TurnRow(db, "s1", 13).assistant_tools = <<>>
    /\ HasTurnRow(db, "s4", 2)

\* ---------------------------------------------------------------- prompt clusters
\* the turns of the window's sessions whose prompt begins with the verb
PromptsOf(verb) ==
    {t \in db.turns :
        /\ \E r \in db.sessions : r.id = t.session_id /\ r.started_at >= WindowStart
        /\ FirstWord(t.user_prompt) = verb}

\* those of them the query reads: more than 10 and fewer than 2000 characters
EligiblePromptsOf(verb) ==
    {t \in PromptsOf(verb) : Length(t.user_prompt) > 10 /\ Length(t.user_prompt) < 2000}

\* the first, the middle and the last of a list, each position once
FirstMiddleLast(rows) ==
    LET n == Len(rows)
    IN  IF n = 0 THEN <<>>
        ELSE IF n = 1 THEN <<rows[1]>>
        ELSE IF n = 2 THEN <<rows[1], rows[2]>>
        ELSE <<rows[1], rows[(n \div 2) + 1], rows[n]>>

ClusterVerbs == {PromptClustersReturned[i].actionVerb : i \in DOMAIN PromptClustersReturned}

C37_OneSubscriptionPerDirectory == \A d \in WDirs \cup {TopDir} : watchers[d] <= 1

\* ---------------------------------------------------------------- listeners
\* addEventListener(listener), the callback registered before or not
Register(l) ==
    /\ Len(listeners) < MaxListeners
    /\ listeners' = Append(listeners, l)
    /\ UNCHANGED <<diskVars, watching, watchers, notifs, topNotifs, debounceTimers,
                   timers, running, emitted, lastEvent, since, burst, boot>>
    /\ UNCHANGED <<syncVars, parseVars, mineVars>>

\* listeners.filter((l) => l !== listener)
Without(ls, l) == SelectSeq(ls, LAMBDA x : x # l)

\* the function addEventListener(l) returned is called
Unsubscribe(l) ==
    /\ \E i \in DOMAIN listeners : listeners[i] = l
    /\ listeners' = Without(listeners, l)
    /\ UNCHANGED <<diskVars, watching, watchers, notifs, topNotifs, debounceTimers,
                   timers, running, emitted, lastEvent, since, burst, boot>>
    /\ UNCHANGED <<syncVars, parseVars, mineVars>>

\* emit(event), the event numbered emitted + 1
EmitEvent ==
    /\ emitted < MaxEvents
    /\ emitted' = emitted + 1
    /\ lastEvent' = Emit(listeners, lastEvent, emitted + 1)
    /\ UNCHANGED <<diskVars, watching, watchers, notifs, topNotifs, debounceTimers,
                   timers, running, listeners, since, burst, boot>>
    /\ UNCHANGED <<syncVars, parseVars, mineVars>>

NextListen ==
    \/ \E l \in ListenerIds : Register(l)
    \/ \E l \in ListenerIds : Unsubscribe(l)
    \/ EmitEvent

SpecListen == InitWatch /\ [][NextListen]_vars

Registrations(ls, l) == Cardinality({i \in DOMAIN ls : ls[i] = l})

\* C39: a call of the function addEventListener returned removes one
\* registration, its own: the other registrations, a second registration of
\* the same callback among them, stay in the order they had, and are called
\* with the events emitted afterwards.
C39_UnsubscribeRemovesOneRegistration ==
    [][/\ Len(listeners') < Len(listeners) =>
              /\ Len(listeners') = Len(listeners) - 1
              /\ \A l \in ListenerIds :
                     Registrations(listeners', l) >= Registrations(listeners, l) - 1
       /\ emitted' = emitted + 1 =>
              \A l \in ListenerIds : Registrations(listeners, l) > 0 => lastEvent'[l] = emitted']_vars

\* ---------------------------------------------------------------- columns written once
\* the columns of a row that identify it and that no re-sync writes
SessionFrame(r) ==
    [id |-> r.id, project_path |-> r.project_path, project_hash |-> r.project_hash,
     jsonl_path |-> r.jsonl_path, started_at |-> r.started_at]
TurnFrame(t) ==
    [session_id |-> t.session_id, turn_number |-> t.turn_number,
     user_prompt |-> t.user_prompt, user_prompt_at |-> t.user_prompt_at]

\* every row of d is in e, with the same values in these columns
FramePreserved(d, e) ==
    /\ \A r \in d.sessions : \E r2 \in e.sessions : SessionFrame(r2) = SessionFrame(r)
    /\ \A t \in d.turns : \E t2 \in e.turns : TurnFrame(t2) = TurnFrame(t)

\* C38: no step deletes a persisted row or changes the prompt text or
\* timestamp of a persisted turn, or the project path, project hash,
\* transcript path or start timestamp of a persisted session; a re-sync
\* changes the other columns only, in the store and in the open transaction.
C38_WrittenOnceColumns ==
    [][/\ FramePreserved(db, db')
       /\ (pc = "turns" /\ pc' = "turns") => FramePreserved(txdb, txdb')
       /\ (pc = "session" /\ pc' = "turns") => FramePreserved(txdb, txdb')]_vars

\* a re-sync has committed a parse whose first prompt and start differ from
\* the persisted ones
C38_Witness ==
    /\ pc = "committed"
    /\ HasTurnRow(db, call.session.id, 1)
    /\ call.session.turns[1].userPrompt # TurnRow(db, call.session.id, 1).user_prompt
    /\ call.session.turns[1].userPromptAt # TurnRow(db, call.session.id, 1).user_prompt_at
    /\ call.session.startedAt # SessionRow(db, call.session.id).started_at
    /\ call.session.lastActivityAt = SessionRow(db, call.session.id).last_activity_at

\* ---------------------------------------------------------------- lazy start-up
\* C40: over the calls of ensureInitialized, syncAll is entered once, from the
\* first call; startWatching runs once, when syncAll has gone through every
\* discovered transcript; and once the first call is over the watcher is on.
C40_StartedOnceThenWatching ==
    [][/\ boot'.pc = "syncAll" => boot.pc \in {"off", "syncAll"}
       /\ watchers'[TopDir] # watchers[TopDir] =>
              /\ boot.pc = "syncAll" /\ boot.todo = <<>>
              /\ watchers[TopDir] = 0 /\ watchers'[TopDir] = 1
       /\ boot'.pc \notin {"off", "syncAll"} => watching' /\ watchers'[TopDir] = 1]_vars

====
